---- MODULE Spec2Model ----
(***************************************************************************)
(* Model of the subscribe/execute/poll/read/finish loops of the LabOne API *)
(* example scripts.  One script runs per behaviour (chosen in Init); the   *)
(* data server's module runs beside it and is visible to the script only   *)
(* through the calls the script makes.  The wall clock advances by Tick;   *)
(* a time.sleep() returns no earlier than SleepTicks later, every other    *)
(* statement may be followed by any number of ticks.                       *)
(***************************************************************************)
EXTENDS Integers, Sequences, FiniteSets, TLC

\* ---------------------------------------------------------------- bounds
\* Every wait's wall-clock budget, in clock ticks (the sources give 2..120 s).
Timeout == 2
\* Records (bursts, grids, scope records, blocks) the module is asked for.
Count == 2
\* Ticks the clock may run past the budget before the model stops it.
Overrun == 2

SleepTicks == 1
\* Longest version text of a docstring.
MaxVerLen == 7
MaxTime == Timeout + Overrun + SleepTicks

VARIABLES
    script,      \* the example script that is running
    pc,          \* its position
    outcome,     \* "running", "returned" or "raised"
    save,        \* the script's --save / filename option
    synchronize, \* the script's --synchronize option
    doc,         \* the texts following each "LabOne Version >= " of the docstring
    installed,   \* zhinst.ziPython.__version__
    props,       \* discovery properties of the device: devicetype, options
    paths,       \* acquisition_poll: the paths asked for
    chunks,      \* acquisition_poll: per path, the chunks recorded
    gotem,       \* acquisition_poll: per path, whether num_samples were obtained
    result,      \* acquisition_poll: the dictionary returned
    polled,      \* per subscribed path, the samples daq.poll has handed out
    now,         \* time.time()
    t0,          \* start of the current wait (start, t0, t_start, tstart)
    wake,        \* earliest return time of the pending time.sleep()
    srv,         \* the module on the data server
    data,        \* records the script has accumulated or accepted
    flags,       \* the script's local `flags`
    obs,         \* the script's last reading of the awaited value
    progress,    \* the script's last reading of progress()[0]
    nfin,        \* num_finished_grids
    iter,        \* index of the current measurement / call
    checked,     \* per inspected record: its flags, warnings, acceptance
    warned,      \* warnings printed that are not about a record
    calls,       \* module and session calls made so far, in order
    loopExit,    \* how the last wait loop ended
    toRecs,      \* records accumulated when a timeout check fired, else -1
    exitIdx,     \* Len(calls) when the read loop was left, else -1
    doneAt,      \* per kind of wait: when the server reached what is awaited, else -1
    late         \* a wait loop went for another round after its budget had run out

ctlVars == <<script, save, synchronize, doc, installed, props, paths, chunks,
             gotem, result, polled>>
timeVars == <<now, t0, wake>>
locVars == <<data, flags, obs, progress, nfin, iter, checked, warned>>
ghostVars == <<calls, loopExit, toRecs, exitIdx, doneAt, late>>
vars == <<script, pc, outcome, save, synchronize, doc, installed, props, paths,
          chunks, gotem, result, polled, now, t0, wake, srv, data,
          flags, obs, progress, nfin, iter, checked, warned, calls, loopExit,
          toRecs, exitIdx, doneAt, late>>

\* ------------------------------------------------------------- helpers
Last(s) == s[Len(s)]

\* bit b (1, 2 or 4) of a flags word 0..7
Bit(f, b) == (f \div b) % 2 = 1

\* time.time() - t0 > timeout
Expired == now - t0 > Timeout

Call(c) == calls' = Append(calls, c)

Running(s, p) == script = s /\ pc = p /\ outcome = "running"

Slept == now >= wake

\* A wait loop ends: `wait` names what was awaited ("module", "status", "sync",
\* "save"), `how` is "done", "timeout_raise", "timeout_break", "timeout_return",
\* "timeout_finish" or "error"; "waiting" while the loop runs, since `since`.
Exit(wait, how) == [loopExit EXCEPT !.wait = wait, !.how = how]

\* The wait loop goes for another round.
Again == late' = (late \/ now - loopExit.since > Timeout)

Waits == {"module", "status", "sync", "save"}

\* The server reached, at the present time, what wait w is for.
Reached(w) == doneAt' = [doneAt EXCEPT ![w] = now]

\* A new wait of kind w begins.
Begin(w) ==
    /\ doneAt' = [doneAt EXCEPT ![w] = -1]
    /\ loopExit' = [wait |-> w, how |-> "waiting", since |-> now]

\* An uncaught exception ends the script.
Raise(exc) ==
    /\ outcome' = "raised"
    /\ pc' = exc

\* The script ends normally.
Return ==
    /\ outcome' = "returned"
    /\ pc' = "done"

Sleep == wake' = now + SleepTicks

\* ----------------------------------------------------------- the server
\* The module as the data server holds it.
\*   run      executing, not yet finished
\*   fin      what finished() answers
\*   prod     records completed since execute()
\*   buf      completed records not yet handed out by read(), by flags
\*   node     the status node the script waits on (findlevel, calculate,
\*            autorange, compiler/status, multiDeviceSync status)
\*   start    the multiDeviceSync module's start parameter
\*   elf      elf/status of the AWG module: 0 uploaded, 1 failed, 2 neither yet
\*   savereq  the module's save/save flag
ModuleIdle ==
    [run |-> FALSE, fin |-> FALSE, prod |-> 0, buf |-> <<>>,
     node |-> 0, start |-> 0, elf |-> 2, savereq |-> 0,
     command |-> "none", on |-> 0, file |-> -1]

\* execute(): idle -> running, progress back to 0
Executed(m) == [m EXCEPT !.run = TRUE, !.fin = FALSE, !.prod = 0]

\* finish() / clear(): the module stops; finished() answers True from then on
Finished(m) == [m EXCEPT !.run = FALSE, !.fin = TRUE]

\* What a deviceSettings run has done when it is finished: "save" writes the
\* device's settings (here sigouts/0/on) to the file, "load" sets them from it.
Completed(m) ==
    CASE m.command = "save" -> [m EXCEPT !.file = m.on]
      [] m.command = "load" /\ m.file # -1 -> [m EXCEPT !.on = m.file]
      [] OTHER -> m

\* toggle_device_setting: daq.setInt(path, not is_enabled)
Toggled(m, is_enabled) == [m EXCEPT !.on = 1 - is_enabled]

\* progress()[0] as 0 or 1
Progress(m) == IF m.prod >= Count THEN 1 ELSE 0


\* Flags a completed record can carry, per script: scope records and stream
\* blocks carry the error bits 1 (data loss), 2 (missed trigger), 4 (transfer
\* failure); a completed grid carries bit 1; the rest carry none.
RecFlags(s) ==
    CASE s \in {"scope", "digstream"} -> {0, 1, 2, 4, 7}
      [] s = "segmented" -> {0, 4}
      [] s = "grid" -> {1}
      [] OTHER -> {0}

\* Scripts whose module finishes by itself only after Count records.
RecordScripts ==
    {"continuous", "grid", "scope", "segmented", "shfli", "mddaq", "edge",
     "sweeper", "mdsweep", "ghflisweeper", "digstream", "uhfqa"}

\* Scripts that wait for a record count and full progress, not for finished().
CountScripts == {"scope", "segmented", "shfli"}

\* The module completes one more record.
SrvProduce ==
    /\ outcome = "running"
    /\ script \in RecordScripts
    /\ srv.run /\ srv.prod < Count
    /\ \E f \in RecFlags(script) :
          srv' = [srv EXCEPT !.prod = @ + 1, !.buf = Append(@, f)]
    /\ IF script \in CountScripts /\ srv.prod + 1 = Count
         THEN Reached("module")
         ELSE UNCHANGED doneAt
    /\ UNCHANGED <<ctlVars, pc, outcome, timeVars, locVars, calls, loopExit,
                   toRecs, exitIdx>>
    /\ UNCHANGED late

\* The module reaches finished() by itself.
SrvFinish ==
    /\ outcome = "running"
    /\ srv.run
    /\ script \in RecordScripts => srv.prod = Count
    /\ srv' = Completed([srv EXCEPT !.run = FALSE, !.fin = TRUE])
    /\ Reached("module")
    /\ UNCHANGED <<ctlVars, pc, outcome, timeVars, locVars, calls, loopExit,
                   toRecs, exitIdx>>
    /\ UNCHANGED late

\* The background save completes: save/save goes back to 0.
SrvSaved ==
    /\ outcome = "running"
    /\ srv.savereq = 1
    /\ srv' = [srv EXCEPT !.savereq = 0]
    /\ Reached("save")
    /\ UNCHANGED <<ctlVars, pc, outcome, timeVars, locVars, calls, loopExit,
                   toRecs, exitIdx>>
    /\ UNCHANGED late

\* Values the awaited status node can take next, per script: findlevel and
\* calculate fall back to 0; the two autorange nodes fall back to 0 one by one;
\* compiler/status leaves -1 for 0, 1 or 2; the sync status climbs 0, 1, 2
\* while start is 1, falls to 0 once start is 0, and is -1 on an error.
NodeNext(s, m) ==
    CASE s \in {"grid", "pid"} -> IF m.node = 1 THEN {0} ELSE {}
      [] s = "autorange" -> IF m.node > 0 THEN {m.node - 1} ELSE {}
      [] s \in {"hdawg", "awgsourcefile", "shfqa"} ->
            IF m.node = -1 THEN {0, 1, 2} ELSE {}
      [] s \in {"mddaq", "mdsweep"} ->
            IF m.start = 1 /\ m.node \in {0, 1} THEN {m.node + 1, -1}
            ELSE IF m.start = 0 /\ m.node \in {1, 2} THEN {0, -1}
            ELSE {}
      [] OTHER -> {}

\* The status node has the value the script waits for.
Awaited(s, m, v) ==
    CASE s \in {"mddaq", "mdsweep"} -> v = (IF m.start = 1 THEN 2 ELSE 0)
      [] s \in {"hdawg", "awgsourcefile", "shfqa"} -> v # -1
      [] OTHER -> v = 0

\* The kind of wait the status node belongs to.
NodeWait(s) == IF s \in {"mddaq", "mdsweep"} THEN "sync" ELSE "status"

\* The server changes the awaited status node.
SrvNode ==
    /\ outcome = "running"
    /\ \E v \in NodeNext(script, srv) :
          /\ srv' = [srv EXCEPT !.node = v]
          /\ IF Awaited(script, srv, v)
               THEN Reached(NodeWait(script))
               ELSE UNCHANGED doneAt
    /\ UNCHANGED <<ctlVars, pc, outcome, timeVars, locVars, calls, loopExit,
                   toRecs, exitIdx>>
    /\ UNCHANGED late

\* The AWG module uploads the compiled program, or fails to.
SrvUpload ==
    /\ outcome = "running"
    /\ script \in {"hdawg", "awgsourcefile"}
    /\ srv.node \in {0, 2} /\ srv.elf = 2
    /\ \E e \in {0, 1} : srv' = [srv EXCEPT !.elf = e]
    /\ Reached("status")
    /\ UNCHANGED <<ctlVars, pc, outcome, timeVars, locVars, calls, loopExit,
                   toRecs, exitIdx, late>>

\* getDouble("progress") of the AWG module, as 0 or 1
UploadProgress(m) == IF m.elf = 0 THEN 1 ELSE 0

\* The wall clock.
Tick ==
    /\ outcome = "running"
    /\ now < MaxTime
    /\ now' = now + 1
    /\ UNCHANGED <<ctlVars, pc, outcome, t0, wake, srv, locVars, ghostVars>>

\* time.sleep() returns also when the clock has reached MaxTime, where the
\* model stops counting: the sleeper wakes at the clock's last value.
Wake ==
    /\ outcome = "running"
    /\ now = MaxTime
    /\ wake > now
    /\ wake' = now
    /\ UNCHANGED <<ctlVars, pc, outcome, now, t0, srv, locVars, ghostVars>>

\* What read() hands out: the completed records, and for a grid module that
\* is still recording possibly the grid in progress (flags 0).  The buffer is
\* emptied.  `has` says whether the subscribed path is a key of the result.
ReadResults(m) ==
    {[has |-> h, recs |-> m.buf \o t] :
        h \in {TRUE},
        t \in {<<>>} \cup (IF script = "grid" /\ m.run /\ m.prod < Count
                            THEN {<<0>>} ELSE {})}
    \cup (IF m.buf = <<>> THEN {[has |-> FALSE, recs |-> <<>>]} ELSE {})

AfterRead(m) == [m EXCEPT !.buf = <<>>]

\* With save/saveonread set, read() also starts a background save.
AfterReadSave(m) == [m EXCEPT !.buf = <<>>, !.savereq = IF save THEN 1 ELSE @]

\* The records of a read that carry the "grid complete" bit.
Complete(recs) == SelectSeq(recs, LAMBDA f : Bit(f, 1))

\* ============================================================ the scripts
\* ------------------------------ example_data_acquisition_continuous.py
Cont_Subscribe ==
    /\ Running("continuous", "config")
    /\ Call("subscribe")
    /\ pc' = "execute"
    /\ UNCHANGED <<ctlVars, outcome, timeVars, srv, locVars, loopExit, toRecs, exitIdx>>
    /\ UNCHANGED <<doneAt, late>>

Cont_Execute ==
    /\ Running("continuous", "execute")
    /\ Call("execute")
    /\ srv' = Executed(srv)
    /\ t0' = now
    /\ pc' = "loop"
    /\ Begin("module")
    /\ UNCHANGED <<ctlVars, outcome, now, wake, locVars, toRecs, exitIdx>>
    /\ UNCHANGED late

\* while not daq_module.finished():
Cont_Loop ==
    /\ Running("continuous", "loop")
    /\ Slept
    /\ IF srv.fin
         THEN /\ pc' = "final"
              /\ loopExit' = Exit("module", "done")
              /\ exitIdx' = Len(calls)
         ELSE /\ pc' = "check"
              /\ UNCHANGED <<loopExit, exitIdx>>
    /\ UNCHANGED <<ctlVars, outcome, timeVars, srv, locVars, calls, toRecs>>
    /\ UNCHANGED <<doneAt, late>>

\* Variant of the step below: daq_module.finish() before the raise.
Cont_Check_Finish ==
    /\ Running("continuous", "check")
    /\ IF Expired
         THEN /\ UNCHANGED late
              /\ Call("finish")
              /\ srv' = Finished(srv)
              /\ Raise("Exception")
              /\ loopExit' = Exit("module", "timeout_raise")
              /\ toRecs' = Len(data)
         ELSE /\ pc' = "read"
              /\ Again
              /\ UNCHANGED <<outcome, loopExit, toRecs, srv, calls>>
    /\ UNCHANGED <<ctlVars, timeVars, locVars, exitIdx>>
    /\ UNCHANGED doneAt

\* if time.time() - t0_measurement > timeout: raise Exception(...)
Cont_Check ==
    /\ Running("continuous", "check")
    /\ IF Expired
         THEN /\ UNCHANGED late
              /\ Raise("Exception")
              /\ loopExit' = Exit("module", "timeout_raise")
              /\ toRecs' = Len(data)
         ELSE /\ pc' = "read"
              /\ Again
              /\ UNCHANGED <<outcome, loopExit, toRecs>>
    /\ UNCHANGED <<ctlVars, timeVars, srv, locVars, calls, exitIdx>>
    /\ UNCHANGED doneAt

\* data, ts0 = read_data_update_plot(data, ts0); time.sleep(...)
Cont_Read ==
    /\ Running("continuous", "read")
    /\ \E r \in ReadResults(srv) : data' = data \o r.recs
    /\ srv' = AfterReadSave(srv)
    /\ IF save THEN doneAt' = [doneAt EXCEPT !["save"] = -1] ELSE UNCHANGED doneAt
    /\ Call("read")
    /\ Sleep
    /\ pc' = "loop"
    /\ UNCHANGED <<ctlVars, outcome, now, t0, flags, obs, progress, nfin, iter,
                   checked, warned, loopExit, toRecs, exitIdx>>
    /\ UNCHANGED late

\* the read after the loop; then the save wait starts
Cont_Final ==
    /\ Running("continuous", "final")
    /\ \E r \in ReadResults(srv) : data' = data \o r.recs
    /\ srv' = AfterReadSave(srv)
    /\ Begin("save")
    /\ Call("read")
    /\ t0' = now
    /\ pc' = "savewait"
    /\ UNCHANGED <<ctlVars, outcome, now, wake, flags, obs, progress, nfin, iter,
                   checked, warned, toRecs, exitIdx>>
    /\ UNCHANGED late

\* while daq_module.getInt("save/save") != 0: time.sleep(0.1)
Cont_SaveWait ==
    /\ Running("continuous", "savewait")
    /\ IF srv.savereq # 0
         THEN /\ Sleep
              /\ pc' = "savecheck"
              /\ UNCHANGED <<outcome, calls, loopExit>>
         ELSE /\ Return
              /\ Call("save=0")
              /\ loopExit' = Exit("save", "done")
              /\ UNCHANGED wake
    /\ UNCHANGED <<ctlVars, now, t0, srv, locVars, toRecs, exitIdx>>
    /\ UNCHANGED <<doneAt, late>>

\* Variant of the check below: on the timeout the save wait is left with a
\* message instead of an exception.
Cont_SaveCheck_Break ==
    /\ Running("continuous", "savecheck")
    /\ Slept
    /\ IF Expired
         THEN /\ UNCHANGED late
              /\ Return
              /\ loopExit' = Exit("save", "timeout_break")
         ELSE /\ Again
              /\ pc' = "savewait"
              /\ UNCHANGED <<outcome, loopExit>>
    /\ UNCHANGED <<ctlVars, timeVars, srv, locVars, calls, toRecs, exitIdx>>
    /\ UNCHANGED doneAt

\* if time.time() - t0 > timeout: raise Exception(...)
Cont_SaveCheck ==
    /\ Running("continuous", "savecheck")
    /\ Slept
    /\ IF Expired
         THEN /\ UNCHANGED late
              /\ Raise("Exception")
              /\ loopExit' = Exit("save", "timeout_raise")
         ELSE /\ Again
              /\ pc' = "savewait"
              /\ UNCHANGED <<outcome, loopExit>>
    /\ UNCHANGED <<ctlVars, timeVars, srv, locVars, calls, toRecs, exitIdx>>
    /\ UNCHANGED doneAt

Continuous ==
    \/ Cont_Subscribe \/ Cont_Execute \/ Cont_Loop \/ Cont_Check \/ Cont_Read
    \/ Cont_Final \/ Cont_SaveWait \/ Cont_SaveCheck

\* ------------------------------------ example_data_acquisition_grid.py
Grid_Subscribe ==
    /\ Running("grid", "config")
    /\ calls' = calls \o <<"set", "sync", "subscribe">>
    /\ pc' = "execute"
    /\ UNCHANGED <<ctlVars, outcome, timeVars, srv, locVars, loopExit, toRecs, exitIdx>>
    /\ UNCHANGED <<doneAt, late>>

\* daq_module.execute(); daq_module.set("findlevel", 1)
Grid_Execute ==
    /\ Running("grid", "execute")
    /\ Call("execute")
    /\ srv' = [Executed(srv) EXCEPT !.node = 1]
    /\ obs' = 1
    /\ t0' = now
    /\ Sleep
    /\ pc' = "findlevel"
    /\ Begin("status")
    /\ UNCHANGED <<ctlVars, outcome, now, data, flags, progress, nfin, iter,
                   checked, warned, toRecs, exitIdx>>
    /\ UNCHANGED late

\* while findlevel == 1: sleep; findlevel = getInt("findlevel"); timeout check
Grid_FindLevel ==
    /\ Running("grid", "findlevel")
    /\ Slept
    /\ obs' = srv.node
    /\ IF Expired
         THEN /\ Call("finish")
              /\ srv' = Finished(srv)
              /\ Raise("RuntimeError")
              /\ loopExit' = Exit("status", "timeout_raise")
              /\ toRecs' = 0
              /\ UNCHANGED <<t0, wake, doneAt, late>>
         ELSE /\ IF srv.node = 1
                   THEN /\ Sleep
                        /\ Again
                        /\ UNCHANGED <<pc, t0, loopExit, doneAt>>
                   ELSE /\ pc' = "loop"
                        /\ t0' = now
                        /\ Begin("module")
                        /\ UNCHANGED <<wake, late>>
              /\ UNCHANGED <<outcome, srv, calls, toRecs>>
    /\ UNCHANGED <<ctlVars, now, data, flags, progress, nfin, iter, checked,
                   warned, exitIdx>>

\* while not daq_module.finished():
Grid_Loop ==
    /\ Running("grid", "loop")
    /\ IF srv.fin
         THEN /\ pc' = "after"
              /\ loopExit' = Exit("module", "done")
              /\ exitIdx' = Len(calls)
         ELSE /\ pc' = "read"
              /\ UNCHANGED <<loopExit, exitIdx>>
    /\ UNCHANGED <<ctlVars, outcome, timeVars, srv, locVars, calls, toRecs>>
    /\ UNCHANGED <<doneAt, late>>

\* the intermediate read(): keep the grids whose flags say "complete"
Grid_Read ==
    /\ Running("grid", "read")
    /\ \E r \in ReadResults(srv) :
          IF r.has /\ r.recs # <<>>
          THEN /\ flags' = Last(r.recs)
               /\ nfin' = nfin + Len(Complete(r.recs))
               /\ data' = data \o Complete(r.recs)
          ELSE UNCHANGED <<flags, nfin, data>>
    /\ srv' = AfterRead(srv)
    /\ Call("read")
    /\ Sleep
    /\ pc' = "timeout"
    /\ UNCHANGED <<ctlVars, outcome, now, t0, obs, progress, iter, checked,
                   warned, loopExit, toRecs, exitIdx>>
    /\ UNCHANGED <<doneAt, late>>

\* Variants of the test below: the timeout is always, or never, fatal.
GridTimeoutFatal_Always(n) == TRUE

GridTimeoutFatal_Never(n) == FALSE

\* if num_finished_grids == 0: the timeout is fatal
GridTimeoutFatal(n) == n = 0

\* if time.time() - t0 > timeout: raise if no grid was recorded, else break
Grid_Timeout ==
    /\ Running("grid", "timeout")
    /\ Slept
    /\ IF Expired
         THEN /\ UNCHANGED late
              /\ toRecs' = nfin
              /\ IF GridTimeoutFatal(nfin)
                   THEN /\ Call("finish")
                        /\ srv' = Finished(srv)
                        /\ Raise("RuntimeError")
                        /\ loopExit' = Exit("module", "timeout_raise")
                        /\ UNCHANGED exitIdx
                   ELSE /\ pc' = "after"
                        /\ loopExit' = Exit("module", "timeout_break")
                        /\ exitIdx' = Len(calls)
                        /\ UNCHANGED <<outcome, srv, calls>>
         ELSE /\ pc' = "loop"
              /\ Again
              /\ UNCHANGED <<outcome, srv, calls, loopExit, toRecs, exitIdx>>
    /\ UNCHANGED <<ctlVars, timeVars, locVars>>
    /\ UNCHANGED doneAt

\* if not flags & 1: one more read() for the grids finished since the last one
Grid_After ==
    /\ Running("grid", "after")
    /\ IF ~Bit(flags, 1)
         THEN /\ Call("read")
              /\ srv' = AfterRead(srv)
              /\ \E r \in ReadResults(srv) :
                    IF ~r.has
                    THEN /\ Raise("KeyError")
                         /\ UNCHANGED <<flags, data>>
                    ELSE /\ pc' = "finish"
                         /\ flags' = IF r.recs # <<>> THEN Last(r.recs) ELSE flags
                         /\ data' = data \o Complete(r.recs)
                         /\ UNCHANGED outcome
         ELSE /\ pc' = "finish"
              /\ UNCHANGED <<outcome, srv, calls, flags, data>>
    /\ UNCHANGED <<ctlVars, timeVars, obs, progress, nfin, iter, checked, warned,
                   loopExit, toRecs, exitIdx>>
    /\ UNCHANGED <<doneAt, late>>

\* daq_module.finish(); assert triggerpath in data
Grid_Finish ==
    /\ Running("grid", "finish")
    /\ Call("finish")
    /\ srv' = Finished(srv)
    /\ Return
    /\ UNCHANGED <<ctlVars, timeVars, locVars, loopExit, toRecs, exitIdx>>
    /\ UNCHANGED <<doneAt, late>>

Grid ==
    \/ Grid_Subscribe \/ Grid_Execute \/ Grid_FindLevel \/ Grid_Loop \/ Grid_Read
    \/ Grid_Timeout \/ Grid_After \/ Grid_Finish

\* --------------------------------------------------- example_scope.py
NumScopeRuns == 3

\* check_scope_record_flags: one warning per error bit set; every record is kept
CheckScopeRecordFlags(recs) ==
    [i \in 1..Len(recs) |->
        [flags |-> recs[i],
         warns |-> {w \in {"dataloss", "missed trigger", "transfer failure"} :
                      \/ w = "dataloss" /\ Bit(recs[i], 1)
                      \/ w = "missed trigger" /\ Bit(recs[i], 2)
                      \/ w = "transfer failure" /\ Bit(recs[i], 4)},
         accepted |-> TRUE]]

Scope_Subscribe ==
    /\ Running("scope", "config")
    /\ calls' = calls \o <<"set", "sync", "subscribe">>
    /\ iter' = 1
    /\ pc' = "gsr"
    /\ UNCHANGED <<ctlVars, outcome, timeVars, srv, data, flags, obs, progress,
                   nfin, checked, warned, loopExit, toRecs, exitIdx, doneAt>>
    /\ UNCHANGED late

\* get_scope_records: scopeModule.execute(), enable the scope, start the clock
Scope_Execute ==
    /\ Running("scope", "gsr")
    /\ calls' = calls \o (IF iter = 2 THEN <<"set", "sync">> ELSE <<>>)
                     \o <<"execute", "set", "sync">>
    /\ srv' = Executed(srv)
    /\ Begin("module")
    /\ t0' = now
    /\ obs' = 0
    /\ progress' = 0
    /\ data' = <<>>
    /\ checked' = <<>>
    /\ Sleep
    /\ pc' = "poll"
    /\ UNCHANGED <<ctlVars, outcome, now, flags, nfin, iter, warned,
                   toRecs, exitIdx>>
    /\ UNCHANGED late

\* while (records < num_records) or (progress < 1.0): sleep, poll, timeout check
Scope_Poll ==
    /\ Running("scope", "poll")
    /\ Slept
    /\ obs' = srv.prod
    /\ progress' = Progress(srv)
    /\ IF Expired
         THEN /\ warned' = warned \cup {"timeout"}
              /\ loopExit' = Exit("module", "timeout_break")
              /\ toRecs' = srv.prod
              /\ pc' = "read"
              /\ UNCHANGED <<wake, late>>
         ELSE /\ IF srv.prod < Count \/ Progress(srv) < 1
                   THEN /\ Sleep
                        /\ Again
                        /\ UNCHANGED <<pc, loopExit>>
                   ELSE /\ pc' = "read"
                        /\ loopExit' = Exit("module", "done")
                        /\ UNCHANGED <<wake, late>>
              /\ UNCHANGED <<warned, toRecs>>
    /\ UNCHANGED <<ctlVars, outcome, now, t0, srv, data, flags, nfin, iter,
                   checked, calls, exitIdx, doneAt>>

\* scopeModule.read(True); scopeModule.finish(); then the caller's assert and
\* check_scope_record_flags
Scope_Read ==
    /\ Running("scope", "read")
    /\ calls' = calls \o <<"set", "read", "finish">>
    /\ srv' = Finished(AfterRead(srv))
    /\ \E r \in ReadResults(srv) :
          IF ~r.has
          THEN /\ Raise("AssertionError")
               /\ UNCHANGED <<data, checked, iter>>
          ELSE /\ data' = r.recs
               /\ checked' = CheckScopeRecordFlags(r.recs)
               /\ IF iter < NumScopeRuns
                    THEN /\ iter' = iter + 1
                         /\ pc' = "gsr"
                         /\ UNCHANGED outcome
                    ELSE /\ Return
                         /\ UNCHANGED iter
    /\ UNCHANGED <<ctlVars, timeVars, flags, obs, progress, nfin, warned,
                   loopExit, toRecs, exitIdx, doneAt>>
    /\ UNCHANGED late

Scope == Scope_Subscribe \/ Scope_Execute \/ Scope_Poll \/ Scope_Read

\* ----------------------------------------- example_scope_dig_segmented.py
num_measurements == 5

Seg_Subscribe ==
    /\ Running("segmented", "config")
    /\ calls' = calls \o <<"set", "sync", "subscribe">>
    /\ iter' = 1
    /\ pc' = "gsr"
    /\ UNCHANGED <<ctlVars, outcome, timeVars, srv, data, flags, obs, progress,
                   nfin, checked, warned, loopExit, toRecs, exitIdx, doneAt>>
    /\ UNCHANGED late

\* get_scope_records: scopeModule.execute(), enable the scope, start the clock
Seg_Execute ==
    /\ Running("segmented", "gsr")
    /\ calls' = calls \o <<"set", "sync", "set", "execute", "set", "sync">>
    /\ srv' = Executed(srv)
    /\ Begin("module")
    /\ t0' = now
    /\ obs' = 0
    /\ progress' = 0
    /\ checked' = <<>>
    /\ Sleep
    /\ pc' = "poll"
    /\ UNCHANGED <<ctlVars, outcome, now, data, flags, nfin, iter, warned,
                   toRecs, exitIdx>>
    /\ UNCHANGED late

\* while (records < num_records) or (progress < 1.0): sleep, poll, timeout check
Seg_Poll ==
    /\ Running("segmented", "poll")
    /\ Slept
    /\ obs' = srv.prod
    /\ progress' = Progress(srv)
    /\ IF Expired
         THEN /\ warned' = warned \cup {"timeout"}
              /\ loopExit' = Exit("module", "timeout_break")
              /\ toRecs' = srv.prod
              /\ pc' = "read"
              /\ UNCHANGED <<wake, late>>
         ELSE /\ IF srv.prod < Count \/ Progress(srv) < 1
                   THEN /\ Sleep
                        /\ Again
                        /\ UNCHANGED <<pc, loopExit>>
                   ELSE /\ pc' = "read"
                        /\ loopExit' = Exit("module", "done")
                        /\ UNCHANGED <<wake, late>>
              /\ UNCHANGED <<warned, toRecs>>
    /\ UNCHANGED <<ctlVars, outcome, now, t0, srv, data, flags, nfin, iter,
                   checked, calls, exitIdx, doneAt>>

\* scopeModule.read(True); scopeModule.finish(); then the caller indexes the
\* result (`wave_nodepath not in data` tests the accumulator, which always has
\* the key), checks the flags and appends the measurement
Seg_Read ==
    /\ Running("segmented", "read")
    /\ calls' = calls \o <<"set", "read", "finish">>
    /\ srv' = Finished(AfterRead(srv))
    /\ \E r \in ReadResults(srv) :
          IF ~r.has
          THEN /\ Raise("KeyError")
               /\ UNCHANGED <<data, checked, iter>>
          ELSE IF r.recs = <<>>
          THEN /\ Raise("IndexError")
               /\ UNCHANGED <<data, checked, iter>>
          ELSE /\ data' = Append(data, Len(r.recs))
               /\ checked' = CheckScopeRecordFlags(r.recs)
               /\ IF iter < num_measurements
                    THEN /\ iter' = iter + 1
                         /\ pc' = "gsr"
                         /\ UNCHANGED outcome
                    ELSE /\ Return
                         /\ UNCHANGED iter
    /\ UNCHANGED <<ctlVars, timeVars, flags, obs, progress, nfin, warned,
                   loopExit, toRecs, exitIdx, doneAt>>
    /\ UNCHANGED late

Segmented == Seg_Subscribe \/ Seg_Execute \/ Seg_Poll \/ Seg_Read

\* ------------------------------- shfli/example_triggered_data_acquisition.py
\* Variant of the step below: the module is executed without a subscription.
Shfli_Subscribe_Missing ==
    /\ Running("shfli", "config")
    /\ pc' = "execute"
    /\ UNCHANGED <<ctlVars, outcome, timeVars, srv, locVars, ghostVars>>

Shfli_Subscribe ==
    /\ Running("shfli", "config")
    /\ calls' = calls \o <<"set", "subscribe">>
    /\ pc' = "execute"
    /\ UNCHANGED <<ctlVars, outcome, timeVars, srv, locVars, loopExit, toRecs,
                   exitIdx, doneAt>>
    /\ UNCHANGED late

\* daq_module.execute(); then trigger_count software triggers, a sleep after each
Shfli_Execute ==
    /\ Running("shfli", "execute")
    /\ Call("execute")
    /\ srv' = Executed(srv)
    /\ Begin("module")
    /\ Sleep
    /\ pc' = "triggers"
    /\ UNCHANGED <<ctlVars, outcome, now, t0, locVars, toRecs, exitIdx>>
    /\ UNCHANGED late

\* start = timer()
Shfli_Start ==
    /\ Running("shfli", "triggers")
    /\ Slept
    /\ t0' = now
    /\ loopExit' = [loopExit EXCEPT !.since = now]
    /\ pc' = "loop"
    /\ UNCHANGED <<ctlVars, outcome, now, wake, srv, locVars, calls, toRecs,
                   exitIdx, doneAt, late>>

\* while daq_module.progress()[0] < 1.0 and not daq_module.finished():
Shfli_Loop ==
    /\ Running("shfli", "loop")
    /\ IF Progress(srv) < 1 /\ ~srv.fin
         THEN /\ Sleep
              /\ pc' = "check"
              /\ UNCHANGED loopExit
         ELSE /\ pc' = "read"
              /\ loopExit' = Exit("module", "done")
              /\ UNCHANGED wake
    /\ UNCHANGED <<ctlVars, outcome, now, t0, srv, locVars, calls, toRecs,
                   exitIdx, doneAt>>
    /\ UNCHANGED late

\* if now - start > 60: print(...); return
Shfli_Check ==
    /\ Running("shfli", "check")
    /\ Slept
    /\ IF Expired
         THEN /\ warned' = warned \cup {"timeout"}
              /\ loopExit' = Exit("module", "timeout_return")
              /\ toRecs' = Len(data)
              /\ Return
              /\ UNCHANGED late
         ELSE /\ Again
              /\ pc' = "loop"
              /\ UNCHANGED <<outcome, warned, loopExit, toRecs>>
    /\ UNCHANGED <<ctlVars, timeVars, srv, data, flags, obs, progress, nfin,
                   iter, checked, calls, exitIdx, doneAt>>

\* data = daq_module.read(flat=True); daq_module.clear(); assert path in data
Shfli_Read ==
    /\ Running("shfli", "read")
    /\ calls' = calls \o <<"read", "clear">>
    /\ srv' = Finished(AfterRead(srv))
    /\ \E r \in ReadResults(srv) :
          IF ~r.has
          THEN /\ Raise("AssertionError")
               /\ UNCHANGED data
          ELSE /\ data' = r.recs
               /\ Return
    /\ UNCHANGED <<ctlVars, timeVars, flags, obs, progress, nfin, iter, checked,
                   warned, loopExit, toRecs, exitIdx, doneAt>>
    /\ UNCHANGED late

Shfli ==
    \/ Shfli_Subscribe \/ Shfli_Execute \/ Shfli_Start \/ Shfli_Loop
    \/ Shfli_Check \/ Shfli_Read

\* ------------------------------ example_multidevice_data_acquisition.py
\* if synchronize: start the multiDeviceSync module and wait for status 2
Mddaq_Start ==
    /\ Running("mddaq", "config")
    /\ IF synchronize
         THEN /\ calls' = calls \o <<"mds.execute", "mds.start">>
              /\ srv' = [srv EXCEPT !.node = 0, !.start = 1]
              /\ t0' = now
              /\ obs' = 0
              /\ Begin("sync")
              /\ Sleep
              /\ pc' = "sync"
         ELSE /\ pc' = "subscribe"
              /\ UNCHANGED <<calls, srv, t0, obs, doneAt, loopExit, wake>>
    /\ UNCHANGED <<ctlVars, outcome, now, data, flags, progress, nfin, iter,
                   checked, warned, toRecs, exitIdx, late>>

\* while status != 2: sleep; status = getInt; raise on -1; raise on timeout
Mddaq_Sync ==
    /\ Running("mddaq", "sync")
    /\ Slept
    /\ obs' = srv.node
    /\ IF srv.node = -1
         THEN /\ Raise("Exception")
              /\ loopExit' = Exit("sync", "error")
              /\ UNCHANGED <<toRecs, wake, late>>
         ELSE IF Expired
         THEN /\ Raise("Exception")
              /\ loopExit' = Exit("sync", "timeout_raise")
              /\ toRecs' = Len(data)
              /\ UNCHANGED <<wake, late>>
         ELSE IF srv.node # 2
         THEN /\ Sleep
              /\ Again
              /\ UNCHANGED <<pc, outcome, loopExit, toRecs>>
         ELSE /\ pc' = "subscribe"
              /\ loopExit' = Exit("sync", "done")
              /\ UNCHANGED <<outcome, toRecs, wake, late>>
    /\ UNCHANGED <<ctlVars, now, t0, srv, data, flags, progress, nfin, iter,
                   checked, warned, calls, exitIdx, doneAt>>

\* device and module settings, daq.sync(), then the subscriptions
Mddaq_Subscribe ==
    /\ Running("mddaq", "subscribe")
    /\ calls' = calls \o <<"set", "sync", "subscribe">>
    /\ pc' = "execute"
    /\ UNCHANGED <<ctlVars, outcome, timeVars, srv, locVars, loopExit, toRecs,
                   exitIdx, doneAt, late>>

\* daq_module.execute(); send the trigger; start the clock
Mddaq_Execute ==
    /\ Running("mddaq", "execute")
    /\ Call("execute")
    /\ srv' = Executed(srv)
    /\ t0' = now
    /\ Begin("module")
    /\ pc' = "loop"
    /\ UNCHANGED <<ctlVars, outcome, now, wake, locVars, toRecs, exitIdx, late>>

\* while not daq_module.finished(): raise on timeout; time.sleep(1)
Mddaq_Loop ==
    /\ Running("mddaq", "loop")
    /\ Slept
    /\ IF srv.fin
         THEN /\ pc' = "read"
              /\ loopExit' = Exit("module", "done")
              /\ UNCHANGED <<outcome, toRecs, wake, late>>
         ELSE IF Expired
         THEN /\ Raise("Exception")
              /\ loopExit' = Exit("module", "timeout_raise")
              /\ toRecs' = Len(data)
              /\ UNCHANGED <<wake, late>>
         ELSE /\ Sleep
              /\ Again
              /\ UNCHANGED <<pc, outcome, loopExit, toRecs>>
    /\ UNCHANGED <<ctlVars, now, t0, srv, locVars, calls, exitIdx, doneAt>>

\* result = daq_module.read(True); daq_module.finish(); return result
Mddaq_Read ==
    /\ Running("mddaq", "read")
    /\ calls' = calls \o <<"read", "finish">>
    /\ srv' = Finished(AfterRead(srv))
    /\ \E r \in ReadResults(srv) : data' = r.recs
    /\ Return
    /\ UNCHANGED <<ctlVars, timeVars, flags, obs, progress, nfin, iter, checked,
                   warned, loopExit, toRecs, exitIdx, doneAt, late>>

Mddaq ==
    \/ Mddaq_Start \/ Mddaq_Sync \/ Mddaq_Subscribe \/ Mddaq_Execute
    \/ Mddaq_Loop \/ Mddaq_Read

\* ------------------------------------ mf/example_autoranging_impedance.py
\* daq.set(trigger_auto_ranging): both autorange nodes are set to 1
Auto_Trigger ==
    /\ Running("autorange", "config")
    /\ Call("sync")
    /\ srv' = [srv EXCEPT !.node = 2]
    /\ t0' = now
    /\ obs' = 0
    /\ Begin("status")
    /\ Sleep
    /\ pc' = "wait"
    /\ UNCHANGED <<ctlVars, outcome, now, data, flags, progress, nfin, iter,
                   checked, warned, toRecs, exitIdx, late>>

\* while not finished: sleep; read both nodes; raise on timeout
Auto_Wait ==
    /\ Running("autorange", "wait")
    /\ Slept
    /\ obs' = IF srv.node = 0 THEN 1 ELSE 0
    /\ IF Expired
         THEN /\ Raise("Exception")
              /\ loopExit' = Exit("status", "timeout_raise")
              /\ toRecs' = Len(data)
              /\ UNCHANGED <<wake, late>>
         ELSE IF srv.node # 0
         THEN /\ Sleep
              /\ Again
              /\ UNCHANGED <<pc, outcome, loopExit, toRecs>>
         ELSE /\ Return
              /\ loopExit' = Exit("status", "done")
              /\ UNCHANGED <<toRecs, wake, late>>
    /\ UNCHANGED <<ctlVars, now, t0, srv, data, flags, progress, nfin, iter,
                   checked, warned, calls, exitIdx, doneAt>>

Autorange == Auto_Trigger \/ Auto_Wait

\* --------------------------------------------- example_pid_advisor_pll.py
Pid_Require_Late ==
    /\ Running("pid", "config")
    /\ Call("set")
    /\ IF props.devicetype \in {"MFLI"} /\ "MD" \notin props.options
         THEN Raise("RuntimeError")
         ELSE pc' = "execute" /\ UNCHANGED outcome
    /\ UNCHANGED <<ctlVars, timeVars, srv, locVars, loopExit, toRecs, exitIdx,
                   doneAt, late>>

\* The example requires the MD option on MF instruments; only then does it go
\* on to zhinst.utils.disable_everything(daq, device).
Pid_Require ==
    /\ Running("pid", "config")
    /\ IF props.devicetype \in {"MFLI"} /\ "MD" \notin props.options
         THEN /\ Raise("RuntimeError")
              /\ UNCHANGED calls
         ELSE /\ Call("set")
              /\ pc' = "execute"
              /\ UNCHANGED outcome
    /\ UNCHANGED <<ctlVars, timeVars, srv, locVars, loopExit, toRecs, exitIdx,
                   doneAt, late>>

\* daq.set(exp_setting); daq.sync(); pid_advisor.execute();
\* pid_advisor.set("calculate", 1)
Pid_Execute ==
    /\ Running("pid", "execute")
    /\ calls' = calls \o <<"set", "sync", "execute">>
    /\ srv' = [Executed(srv) EXCEPT !.node = 1]
    /\ obs' = 1
    /\ t0' = now
    /\ Begin("status")
    /\ Sleep
    /\ pc' = "advise"
    /\ UNCHANGED <<ctlVars, outcome, now, data, flags, progress, nfin, iter,
                   checked, warned, toRecs, exitIdx, late>>

\* while calculate == 1: sleep; calculate = getInt; finish and raise on timeout
Pid_Advise ==
    /\ Running("pid", "advise")
    /\ Slept
    /\ obs' = srv.node
    /\ IF Expired
         THEN /\ Call("finish")
              /\ srv' = Finished(srv)
              /\ Raise("Exception")
              /\ loopExit' = Exit("status", "timeout_raise")
              /\ toRecs' = Len(data)
              /\ UNCHANGED <<wake, late>>
         ELSE IF srv.node = 1
         THEN /\ Sleep
              /\ Again
              /\ UNCHANGED <<pc, outcome, srv, calls, loopExit, toRecs>>
         ELSE /\ Return
              /\ loopExit' = Exit("status", "done")
              /\ UNCHANGED <<srv, calls, toRecs, wake, late>>
    /\ UNCHANGED <<ctlVars, now, t0, data, flags, progress, nfin, iter, checked,
                   warned, exitIdx, doneAt>>

Pid == Pid_Require \/ Pid_Execute \/ Pid_Advise

\* ------------------------------------------------ hdawg/example_awg.py
\* awgModule.execute(); awgModule.set("compiler/sourcestring", awg_program)
Hdawg_Compile ==
    /\ Running("hdawg", "config")
    /\ calls' = calls \o <<"sync", "execute">>
    /\ srv' = [Executed(srv) EXCEPT !.node = -1, !.elf = 2]
    /\ Begin("status")
    /\ pc' = "compile"
    /\ UNCHANGED <<ctlVars, outcome, timeVars, locVars, toRecs, exitIdx, late>>

\* while awgModule.getInt("compiler/status") == -1: time.sleep(0.1)
Hdawg_CompileWait ==
    /\ Running("hdawg", "compile")
    /\ Slept
    /\ IF srv.node = -1
         THEN /\ Sleep
              /\ Again
              /\ UNCHANGED <<pc, loopExit>>
         ELSE /\ pc' = "status"
              /\ loopExit' = Exit("status", "done")
              /\ UNCHANGED <<wake, late>>
    /\ UNCHANGED <<ctlVars, outcome, now, t0, srv, locVars, calls, toRecs,
                   exitIdx, doneAt>>

\* raise on compiler/status 1, print on 0 and 2; time.sleep(0.2)
Hdawg_Status ==
    /\ Running("hdawg", "status")
    /\ IF srv.node = 1
         THEN /\ Raise("Exception")
              /\ UNCHANGED <<warned, wake, loopExit, doneAt>>
         ELSE /\ warned' = IF srv.node = 2 THEN warned \cup {"compiler warning"}
                           ELSE warned
              /\ Sleep
              /\ Begin("status")
              /\ pc' = "upload"
              /\ UNCHANGED outcome
    /\ UNCHANGED <<ctlVars, now, t0, srv, data, flags, obs, progress, nfin,
                   iter, checked, calls, toRecs, exitIdx, late>>

\* while progress < 1.0 and elf/status != 1: time.sleep(0.2)
Hdawg_Upload ==
    /\ Running("hdawg", "upload")
    /\ Slept
    /\ IF UploadProgress(srv) < 1 /\ srv.elf # 1
         THEN /\ Sleep
              /\ Again
              /\ UNCHANGED <<pc, outcome, loopExit>>
         ELSE /\ loopExit' = Exit("status", "done")
              /\ IF srv.elf = 1 THEN Raise("Exception") ELSE Return
              /\ UNCHANGED <<wake, late>>
    /\ UNCHANGED <<ctlVars, now, t0, srv, locVars, calls, toRecs, exitIdx, doneAt>>

Hdawg == Hdawg_Compile \/ Hdawg_CompileWait \/ Hdawg_Status \/ Hdawg_Upload

\* --------------------------------- example_save_device_settings_expert.py
\* toggle_device_setting (the device's sigouts/0/on is 0 or 1; `data` keeps
\* the script's readings of it); set("command", "save"); execute()
Set_Save ==
    /\ Running("savesettings", "config")
    /\ calls' = calls \o <<"set", "sync", "execute">>
    /\ \E is_enabled \in {0, 1} :
          /\ data' = <<is_enabled>>
          /\ srv' = [Executed(Toggled(srv, is_enabled)) EXCEPT !.command = "save"]
    /\ iter' = 1
    /\ Begin("module")
    /\ pc' = "wait"
    /\ UNCHANGED <<ctlVars, outcome, timeVars, flags, obs, progress, nfin,
                   checked, warned, toRecs, exitIdx, late>>

\* while not device_settings.finished(): time.sleep(0.2)
Set_Wait ==
    /\ Running("savesettings", "wait")
    /\ Slept
    /\ IF ~srv.fin
         THEN /\ Sleep
              /\ Again
              /\ UNCHANGED <<pc, outcome, loopExit>>
         ELSE /\ loopExit' = Exit("module", "done")
              /\ IF iter = 1
                   THEN pc' = "reload" /\ UNCHANGED outcome
                   ELSE Return
              /\ UNCHANGED <<wake, late>>
    /\ UNCHANGED <<ctlVars, now, t0, srv, locVars, calls, toRecs, exitIdx, doneAt>>

\* toggle_device_setting; set("command", "save"); execute() a second time
Set_Reload ==
    /\ Running("savesettings", "reload")
    /\ calls' = calls \o <<"set", "sync", "execute">>
    /\ data' = Append(data, srv.on)
    /\ srv' = [Executed(Toggled(srv, srv.on)) EXCEPT !.command = "save"]
    /\ iter' = 2
    /\ Begin("module")
    /\ pc' = "wait"
    /\ UNCHANGED <<ctlVars, outcome, timeVars, flags, obs, progress, nfin,
                   checked, warned, toRecs, exitIdx, late>>

Savesettings == Set_Save \/ Set_Wait \/ Set_Reload

\* ------------------------------------------------------ example_sweeper.py
\* The read of a finished sweep and the checks on it: the path is a key of the
\* result and the number of sweeps is loopcount.
SweepChecks(r, needCount) ==
    IF ~r.has \/ (needCount /\ Len(r.recs) # Count)
      THEN Raise("AssertionError")
      ELSE Return

\* daq.set(exp_setting); daq.sync(); sweeper.subscribe(path)
Sw_Subscribe ==
    /\ Running("sweeper", "config")
    /\ calls' = calls \o <<"set", "sync", "subscribe">>
    /\ pc' = "execute"
    /\ UNCHANGED <<ctlVars, outcome, timeVars, srv, locVars, loopExit, toRecs,
                   exitIdx, doneAt, late>>

\* sweeper.execute(); start = time.time()
Sw_Execute ==
    /\ Running("sweeper", "execute")
    /\ Call("execute")
    /\ srv' = Executed(srv)
    /\ t0' = now
    /\ Begin("module")
    /\ pc' = "head"
    /\ UNCHANGED <<ctlVars, outcome, now, wake, locVars, toRecs, exitIdx, late>>

Sw_Head_Retry ==
    /\ Running("sweeper", "head")
    /\ IF srv.fin /\ loopExit.how = "timeout_finish" /\ Len(calls) < 8
         THEN /\ Call("execute")
              /\ srv' = Executed(srv)
              /\ t0' = now
              /\ Begin("module")
              /\ UNCHANGED <<pc, wake, exitIdx, late>>
         ELSE IF srv.fin
         THEN /\ pc' = "save"
              /\ exitIdx' = Len(calls)
              /\ UNCHANGED <<wake, late, t0, srv, calls, loopExit, doneAt>>
         ELSE /\ pc' = "body"
              /\ Sleep
              /\ Again
              /\ UNCHANGED <<loopExit, exitIdx, t0, srv, calls, doneAt>>
    /\ UNCHANGED <<ctlVars, outcome, now, locVars, toRecs>>

\* while not sweeper.finished(): time.sleep(0.2)
Sw_Head ==
    /\ Running("sweeper", "head")
    /\ IF srv.fin
         THEN /\ pc' = "save"
              /\ loopExit' = IF loopExit.how = "timeout_finish" THEN loopExit
                             ELSE Exit("module", "done")
              /\ exitIdx' = Len(calls)
              /\ UNCHANGED <<wake, late>>
         ELSE /\ pc' = "body"
              /\ Sleep
              /\ Again
              /\ UNCHANGED <<loopExit, exitIdx>>
    /\ UNCHANGED <<ctlVars, outcome, now, t0, srv, locVars, calls, toRecs, doneAt>>

\* Variant of the step below: on timeout the message is printed and
\* sweeper.finish() is left out.
Sw_Body_NoFinish ==
    /\ Running("sweeper", "body")
    /\ Slept
    /\ progress' = Progress(srv)
    /\ warned' = IF Expired THEN warned \cup {"forcing finish"} ELSE warned
    /\ pc' = "head"
    /\ UNCHANGED <<ctlVars, outcome, timeVars, srv, data, flags, obs, nfin,
                   iter, checked, ghostVars>>

\* progress = sweeper.progress(); on timeout print and sweeper.finish()
Sw_Body ==
    /\ Running("sweeper", "body")
    /\ Slept
    /\ progress' = Progress(srv)
    /\ IF Expired
         THEN /\ Call("finish")
              /\ srv' = Finished(srv)
              /\ warned' = warned \cup {"forcing finish"}
              /\ loopExit' = Exit("module", "timeout_finish")
              /\ toRecs' = Len(srv.buf)
         ELSE UNCHANGED <<calls, srv, warned, loopExit, toRecs>>
    /\ pc' = "head"
    /\ UNCHANGED <<ctlVars, outcome, timeVars, data, flags, obs, nfin, iter,
                   checked, exitIdx, doneAt, late>>

\* Variant of the step below: save/save is set and read() follows at once.
Sw_Save_NoWait ==
    /\ Running("sweeper", "save")
    /\ IF save
         THEN /\ Call("save")
              /\ srv' = [srv EXCEPT !.savereq = 1]
              /\ Begin("save")
         ELSE UNCHANGED <<calls, srv, doneAt, loopExit>>
    /\ pc' = "read"
    /\ UNCHANGED <<ctlVars, outcome, timeVars, locVars, toRecs, exitIdx, late>>

\* if save: sweeper.set("save/save", 1); save_done = sweeper.getInt("save/save")
Sw_Save ==
    /\ Running("sweeper", "save")
    /\ IF save
         THEN /\ Call("save")
              /\ srv' = [srv EXCEPT !.savereq = 1]
              /\ Begin("save")
              /\ pc' = "savewait"
         ELSE /\ pc' = "read"
              /\ UNCHANGED <<calls, srv, doneAt, loopExit>>
    /\ UNCHANGED <<ctlVars, outcome, timeVars, locVars, toRecs, exitIdx, late>>

\* while save_done != 0: save_done = sweeper.getInt("save/save")
Sw_SaveWait ==
    /\ Running("sweeper", "savewait")
    /\ obs' = srv.savereq
    /\ IF srv.savereq # 0
         THEN /\ Again
              /\ UNCHANGED <<pc, calls, loopExit>>
         ELSE /\ pc' = "read"
              /\ Call("save=0")
              /\ loopExit' = Exit("save", "done")
              /\ UNCHANGED late
    /\ UNCHANGED <<ctlVars, outcome, timeVars, srv, data, flags, progress, nfin,
                   iter, checked, warned, toRecs, exitIdx, doneAt>>

\* data = sweeper.read(True); sweeper.unsubscribe(path); the asserts
Sw_Read ==
    /\ Running("sweeper", "read")
    /\ calls' = calls \o <<"read", "unsubscribe">>
    /\ srv' = AfterRead(srv)
    /\ \E r \in ReadResults(srv) :
          /\ data' = r.recs
          /\ SweepChecks(r, TRUE)
    /\ UNCHANGED <<ctlVars, timeVars, flags, obs, progress, nfin, iter, checked,
                   warned, loopExit, toRecs, exitIdx, doneAt, late>>

Sweeper == Sw_Subscribe \/ Sw_Execute \/ Sw_Head \/ Sw_Body \/ Sw_Save
           \/ Sw_SaveWait \/ Sw_Read

\* ------------------------------------------------ ghfli/example_sweeper.py
\* daq.setDouble/setInt device settings (no daq.sync()); sweeper.subscribe(path);
\* sweeper.execute(); start = time.time()
Gh_Execute ==
    /\ Running("ghflisweeper", "config")
    /\ calls' = calls \o <<"set", "subscribe", "execute">>
    /\ srv' = Executed(srv)
    /\ t0' = now
    /\ Begin("module")
    /\ pc' = "head"
    /\ UNCHANGED <<ctlVars, outcome, now, wake, locVars, toRecs, exitIdx, late>>

\* while not sweeper.finished(): time.sleep(0.2)
Gh_Head ==
    /\ Running("ghflisweeper", "head")
    /\ IF srv.fin
         THEN /\ pc' = "save"
              /\ loopExit' = IF loopExit.how = "timeout_finish" THEN loopExit
                             ELSE Exit("module", "done")
              /\ exitIdx' = Len(calls)
              /\ UNCHANGED <<wake, late>>
         ELSE /\ pc' = "body"
              /\ Sleep
              /\ Again
              /\ UNCHANGED <<loopExit, exitIdx>>
    /\ UNCHANGED <<ctlVars, outcome, now, t0, srv, locVars, calls, toRecs, doneAt>>

\* progress = sweeper.progress(); on timeout print and sweeper.finish()
Gh_Body ==
    /\ Running("ghflisweeper", "body")
    /\ Slept
    /\ progress' = Progress(srv)
    /\ IF Expired
         THEN /\ Call("finish")
              /\ srv' = Finished(srv)
              /\ warned' = warned \cup {"forcing finish"}
              /\ loopExit' = Exit("module", "timeout_finish")
              /\ toRecs' = Len(srv.buf)
         ELSE UNCHANGED <<calls, srv, warned, loopExit, toRecs>>
    /\ pc' = "head"
    /\ UNCHANGED <<ctlVars, outcome, timeVars, data, flags, obs, nfin, iter,
                   checked, exitIdx, doneAt, late>>

\* if save: save_data_to_file(sweeper), up to sweeper.set("save/save", 1)
Gh_Save ==
    /\ Running("ghflisweeper", "save")
    /\ IF save
         THEN /\ Call("save")
              /\ srv' = [srv EXCEPT !.savereq = 1]
              /\ Begin("save")
              /\ pc' = "savewait"
         ELSE /\ pc' = "read"
              /\ UNCHANGED <<calls, srv, doneAt, loopExit>>
    /\ UNCHANGED <<ctlVars, outcome, timeVars, locVars, toRecs, exitIdx, late>>

\* save_data_to_file: while sweeper.getInt("save/save") != 0: time.sleep(0.1)
Gh_SaveWait ==
    /\ Running("ghflisweeper", "savewait")
    /\ Slept
    /\ obs' = srv.savereq
    /\ IF srv.savereq # 0
         THEN /\ Sleep
              /\ Again
              /\ UNCHANGED <<pc, calls, loopExit>>
         ELSE /\ pc' = "read"
              /\ Call("save=0")
              /\ loopExit' = Exit("save", "done")
              /\ UNCHANGED <<wake, late>>
    /\ UNCHANGED <<ctlVars, outcome, now, t0, srv, data, flags, progress, nfin,
                   iter, checked, warned, toRecs, exitIdx, doneAt>>

\* data = sweeper.read(flat=True); sweeper.unsubscribe(path); assert path in data
Gh_Read ==
    /\ Running("ghflisweeper", "read")
    /\ calls' = calls \o <<"read", "unsubscribe">>
    /\ srv' = AfterRead(srv)
    /\ \E r \in ReadResults(srv) :
          /\ data' = r.recs
          /\ SweepChecks(r, FALSE)
    /\ UNCHANGED <<ctlVars, timeVars, flags, obs, progress, nfin, iter, checked,
                   warned, loopExit, toRecs, exitIdx, doneAt, late>>

Ghflisweeper == Gh_Execute \/ Gh_Head \/ Gh_Body \/ Gh_Save \/ Gh_SaveWait
                \/ Gh_Read

\* -------------------------------------------- example_multidevice_sweep.py
\* if synchronize: start the multiDeviceSync module; tstart = time.time()
Mds_Start ==
    /\ Running("mdsweep", "config")
    /\ IF synchronize
         THEN /\ calls' = calls \o <<"mds.execute", "mds.start">>
              /\ srv' = [srv EXCEPT !.node = 0, !.start = 1]
              /\ t0' = now
              /\ obs' = 0
              /\ Begin("sync")
              /\ Sleep
              /\ pc' = "sync"
         ELSE /\ pc' = "subscribe"
              /\ UNCHANGED <<calls, srv, t0, obs, doneAt, loopExit, wake>>
    /\ UNCHANGED <<ctlVars, outcome, now, data, flags, progress, nfin, iter,
                   checked, warned, toRecs, exitIdx, late>>

\* Variant of the step below: the loop is also left, without an error, when
\* the status is 1 (synchronisation still in progress).
Mds_Sync_Early ==
    /\ Running("mdsweep", "sync")
    /\ Slept
    /\ obs' = srv.node
    /\ IF srv.node = -1
         THEN /\ Raise("AssertionError")
              /\ loopExit' = Exit("sync", "error")
              /\ UNCHANGED <<toRecs, wake, late>>
         ELSE IF srv.node \in {1, 2}
         THEN /\ pc' = "subscribe"
              /\ loopExit' = Exit("sync", "done")
              /\ UNCHANGED <<outcome, toRecs, wake, late>>
         ELSE IF ~(now - t0 < Timeout)
         THEN /\ Raise("AssertionError")
              /\ loopExit' = Exit("sync", "timeout_raise")
              /\ toRecs' = Len(data)
              /\ UNCHANGED <<wake, late>>
         ELSE /\ Sleep
              /\ Again
              /\ UNCHANGED <<pc, outcome, loopExit, toRecs>>
    /\ UNCHANGED <<ctlVars, now, t0, srv, data, flags, progress, nfin, iter,
                   checked, warned, calls, exitIdx, doneAt>>

\* while True: sleep; status; assert status != -1; break on 2; assert no timeout
Mds_Sync ==
    /\ Running("mdsweep", "sync")
    /\ Slept
    /\ obs' = srv.node
    /\ IF srv.node = -1
         THEN /\ Raise("AssertionError")
              /\ loopExit' = Exit("sync", "error")
              /\ UNCHANGED <<toRecs, wake, late>>
         ELSE IF srv.node = 2
         THEN /\ pc' = "subscribe"
              /\ loopExit' = Exit("sync", "done")
              /\ UNCHANGED <<outcome, toRecs, wake, late>>
         ELSE IF ~(now - t0 < Timeout)
         THEN /\ Raise("AssertionError")
              /\ loopExit' = Exit("sync", "timeout_raise")
              /\ toRecs' = Len(data)
              /\ UNCHANGED <<wake, late>>
         ELSE /\ Sleep
              /\ Again
              /\ UNCHANGED <<pc, outcome, loopExit, toRecs>>
    /\ UNCHANGED <<ctlVars, now, t0, srv, data, flags, progress, nfin, iter,
                   checked, warned, calls, exitIdx, doneAt>>

\* daq.set(exp_setting); daq.sync(); sweeper.subscribe(path) for every device
Mds_Subscribe ==
    /\ Running("mdsweep", "subscribe")
    /\ calls' = calls \o <<"set", "sync", "subscribe">>
    /\ pc' = "execute"
    /\ UNCHANGED <<ctlVars, outcome, timeVars, srv, locVars, loopExit, toRecs,
                   exitIdx, doneAt, late>>

\* sweeper.execute(); start = time.time()
Mds_Execute ==
    /\ Running("mdsweep", "execute")
    /\ Call("execute")
    /\ srv' = Executed(srv)
    /\ t0' = now
    /\ Begin("module")
    /\ pc' = "head"
    /\ UNCHANGED <<ctlVars, outcome, now, wake, locVars, toRecs, exitIdx, late>>

\* while not sweeper.finished(): time.sleep(0.5)
Mds_Head ==
    /\ Running("mdsweep", "head")
    /\ IF srv.fin
         THEN /\ pc' = "save"
              /\ loopExit' = IF loopExit.how = "timeout_finish" THEN loopExit
                             ELSE Exit("module", "done")
              /\ exitIdx' = Len(calls)
              /\ UNCHANGED <<wake, late>>
         ELSE /\ pc' = "body"
              /\ Sleep
              /\ Again
              /\ UNCHANGED <<loopExit, exitIdx>>
    /\ UNCHANGED <<ctlVars, outcome, now, t0, srv, locVars, calls, toRecs, doneAt>>

\* progress = sweeper.progress(); on timeout print and sweeper.finish()
Mds_Body ==
    /\ Running("mdsweep", "body")
    /\ Slept
    /\ progress' = Progress(srv)
    /\ IF Expired
         THEN /\ Call("finish")
              /\ srv' = Finished(srv)
              /\ warned' = warned \cup {"forcing finish"}
              /\ loopExit' = Exit("module", "timeout_finish")
              /\ toRecs' = Len(srv.buf)
         ELSE UNCHANGED <<calls, srv, warned, loopExit, toRecs>>
    /\ pc' = "head"
    /\ UNCHANGED <<ctlVars, outcome, timeVars, data, flags, obs, nfin, iter,
                   checked, exitIdx, doneAt, late>>

\* if save: sweeper.set("save/save", save); save_done = getInt("save/save")
Mds_Save ==
    /\ Running("mdsweep", "save")
    /\ IF save
         THEN /\ Call("save")
              /\ srv' = [srv EXCEPT !.savereq = 1]
              /\ Begin("save")
              /\ pc' = "savewait"
         ELSE /\ pc' = "read"
              /\ UNCHANGED <<calls, srv, doneAt, loopExit>>
    /\ UNCHANGED <<ctlVars, outcome, timeVars, locVars, toRecs, exitIdx, late>>

\* while save_done != 0: save_done = sweeper.getInt("save/save")
Mds_SaveWait ==
    /\ Running("mdsweep", "savewait")
    /\ obs' = srv.savereq
    /\ IF srv.savereq # 0
         THEN /\ Again
              /\ UNCHANGED <<pc, calls, loopExit>>
         ELSE /\ pc' = "read"
              /\ Call("save=0")
              /\ loopExit' = Exit("save", "done")
              /\ UNCHANGED late
    /\ UNCHANGED <<ctlVars, outcome, timeVars, srv, data, flags, progress, nfin,
                   iter, checked, warned, toRecs, exitIdx, doneAt>>

\* data = sweeper.read(True); unsubscribe; the asserts; if synchronize: the
\* teardown sets start to 0 and restarts the clock
Mds_Read ==
    /\ Running("mdsweep", "read")
    /\ srv' = [AfterRead(srv) EXCEPT !.start = IF synchronize THEN 0 ELSE @]
    /\ \E r \in ReadResults(srv) :
          /\ data' = r.recs
          /\ IF ~r.has
               THEN /\ calls' = calls \o <<"read", "unsubscribe">>
                    /\ Raise("AssertionError")
                    /\ UNCHANGED <<t0, wake, doneAt, loopExit>>
               ELSE IF synchronize
               THEN /\ calls' = calls \o <<"read", "unsubscribe", "mds.stop">>
                    /\ t0' = now
                    /\ Begin("sync")
                    /\ Sleep
                    /\ pc' = "teardown"
                    /\ UNCHANGED outcome
               ELSE /\ calls' = calls \o <<"read", "unsubscribe">>
                    /\ Return
                    /\ UNCHANGED <<t0, wake, doneAt, loopExit>>
    /\ UNCHANGED <<ctlVars, now, flags, obs, progress, nfin, iter, checked,
                   warned, toRecs, exitIdx, late>>

\* while True: sleep; status; assert status != -1; break on 0; on timeout
\* print a warning and break; return data
Mds_Teardown ==
    /\ Running("mdsweep", "teardown")
    /\ Slept
    /\ obs' = srv.node
    /\ IF srv.node = -1
         THEN /\ Raise("AssertionError")
              /\ loopExit' = Exit("sync", "error")
              /\ UNCHANGED <<warned, toRecs, wake, late>>
         ELSE IF srv.node = 0
         THEN /\ Return
              /\ loopExit' = Exit("sync", "done")
              /\ UNCHANGED <<warned, toRecs, wake, late>>
         ELSE IF Expired
         THEN /\ Return
              /\ warned' = warned \cup {"Timeout during device sync stop"}
              /\ loopExit' = Exit("sync", "timeout_break")
              /\ toRecs' = Len(data)
              /\ UNCHANGED <<wake, late>>
         ELSE /\ Sleep
              /\ Again
              /\ UNCHANGED <<pc, outcome, warned, loopExit, toRecs>>
    /\ UNCHANGED <<ctlVars, now, t0, srv, data, flags, progress, nfin, iter,
                   checked, calls, exitIdx, doneAt>>

Mdsweep ==
    \/ Mds_Start \/ Mds_Sync \/ Mds_Subscribe \/ Mds_Execute \/ Mds_Head
    \/ Mds_Body \/ Mds_Save \/ Mds_SaveWait \/ Mds_Read \/ Mds_Teardown

\* ------------------------------------ example_data_acquisition_edge.py
\* num_pulses = 20, trigger_count = int(num_pulses / 2)
NumPulses == 2 * Count

\* daq.set(exp_setting); daq.sync(); daq_module.subscribe(signal_path);
\* execute(); time.sleep(...)
Edge_Execute ==
    /\ Running("edge", "config")
    /\ calls' = calls \o <<"set", "sync", "subscribe", "execute">>
    /\ srv' = Executed(srv)
    /\ iter' = 0
    /\ t0' = now
    /\ Begin("module")
    /\ Sleep
    /\ pc' = "pulses"
    /\ UNCHANGED <<ctlVars, outcome, now, data, flags, obs, progress, nfin,
                   checked, warned, toRecs, exitIdx, late>>

\* for _ in range(num_pulses * repetitions): pulse, sleep, progress;
\* break if daq_module.finished().  Then time.sleep(1.2 * buffer_size).
Edge_Pulse ==
    /\ Running("edge", "pulses")
    /\ Slept
    /\ progress' = Progress(srv)
    /\ iter' = iter + 1
    /\ Sleep
    /\ IF srv.fin \/ iter + 1 = NumPulses
         THEN /\ pc' = "read"
              /\ loopExit' = Exit("module", IF srv.fin THEN "done" ELSE "exhausted")
              /\ exitIdx' = Len(calls)
         ELSE UNCHANGED <<pc, loopExit, exitIdx>>
    /\ UNCHANGED <<ctlVars, outcome, now, t0, srv, data, flags, obs, nfin,
                   checked, warned, calls, toRecs, doneAt, late>>

\* if save: daq_module.set("save/save", save); then data = daq_module.read(True)
Edge_Read ==
    /\ Running("edge", "read")
    /\ Slept
    /\ calls' = IF save THEN calls \o <<"save", "read">> ELSE Append(calls, "read")
    /\ srv' = [AfterRead(srv) EXCEPT !.savereq = IF save THEN 1 ELSE @]
    /\ \E r \in ReadResults(srv) :
          /\ data' = r.recs
          /\ flags' = IF r.has THEN 1 ELSE 0
    /\ IF save
         THEN Begin("save") /\ pc' = "savewait"
         ELSE pc' = "check" /\ UNCHANGED <<doneAt, loopExit>>
    /\ UNCHANGED <<ctlVars, outcome, timeVars, obs, progress, nfin, iter,
                   checked, warned, toRecs, exitIdx, late>>

\* save_done = getInt("save/save"); while save_done != 0: save_done = getInt(...)
Edge_SaveWait ==
    /\ Running("edge", "savewait")
    /\ obs' = srv.savereq
    /\ IF srv.savereq # 0
         THEN /\ Again
              /\ UNCHANGED <<pc, calls, loopExit>>
         ELSE /\ pc' = "check"
              /\ Call("save=0")
              /\ loopExit' = Exit("save", "done")
              /\ UNCHANGED late
    /\ UNCHANGED <<ctlVars, outcome, timeVars, srv, data, flags, progress, nfin,
                   iter, checked, warned, toRecs, exitIdx, doneAt>>

\* assert data; assert signal_path in data; assert len(samples) == trigger_count
Edge_Check ==
    /\ Running("edge", "check")
    /\ IF flags = 0 \/ Len(data) # Count
         THEN Raise("AssertionError")
         ELSE Return
    /\ UNCHANGED <<ctlVars, timeVars, srv, locVars, ghostVars>>

Edge == Edge_Execute \/ Edge_Pulse \/ Edge_Read \/ Edge_SaveWait \/ Edge_Check

\* ---------------------------------------------- example_scope_dig_stream.py
\* Variant of the operator below: the warnings are printed without `continue`.
StreamBlock_NoContinue(f) ==
    [flags |-> f,
     warns |-> IF Bit(f, 1) THEN {"dataloss"}
               ELSE IF Bit(f, 2) THEN {"missed trigger"} ELSE {},
     accepted |-> TRUE]

\* What the loop body does with one block: a data-loss or missed-trigger
\* block is warned about and skipped; any other block is used, and warned
\* about as a transfer failure when flags & 3 is non-zero.
StreamBlock(f) ==
    IF Bit(f, 1) THEN [flags |-> f, warns |-> {"dataloss"}, accepted |-> FALSE]
    ELSE IF Bit(f, 2)
      THEN [flags |-> f, warns |-> {"missed trigger"}, accepted |-> FALSE]
    ELSE IF Bit(f, 1) \/ Bit(f, 2)
      THEN [flags |-> f, warns |-> {"transfer failure"}, accepted |-> TRUE]
    ELSE [flags |-> f, warns |-> {}, accepted |-> TRUE]

StreamBlocks(blocks) == [i \in 1..Len(blocks) |-> StreamBlock(blocks[i])]

\* enable the stream; daq.sync(); daq.subscribe(stream_nodepath); t_start
Dig_Subscribe ==
    /\ Running("digstream", "config")
    /\ calls' = calls \o <<"sync", "subscribe">>
    /\ srv' = Executed(srv)
    /\ nfin' = 0
    /\ t0' = now
    /\ Begin("module")
    /\ pc' = "loop"
    /\ UNCHANGED <<ctlVars, outcome, now, wake, data, flags, obs, progress, iter,
                   checked, warned, toRecs, exitIdx, late>>

\* while num_scope < num_scope_samples: raise on timeout; data = daq.poll(...);
\* continue if the path is missing; else handle every block.  After the loop
\* daq.sync() and daq.unsubscribe("*").  nfin stands for num_scope, in blocks.
Dig_Loop ==
    /\ Running("digstream", "loop")
    /\ Slept
    /\ IF nfin >= Count
         THEN /\ calls' = calls \o <<"sync", "unsubscribe">>
              /\ Return
              /\ loopExit' = Exit("module", "done")
              /\ UNCHANGED <<srv, data, nfin, iter, checked, toRecs, wake, late>>
         ELSE IF Expired
         THEN /\ Raise("Exception")
              /\ loopExit' = Exit("module", "timeout_raise")
              /\ toRecs' = Len(data)
              /\ UNCHANGED <<srv, data, nfin, iter, checked, calls, wake, late>>
         ELSE /\ Call("poll")
              /\ iter' = iter + 1
              /\ srv' = AfterRead(srv)
              /\ checked' = checked \o StreamBlocks(srv.buf)
              /\ data' = data \o SelectSeq(srv.buf, LAMBDA f : StreamBlock(f).accepted)
              /\ nfin' = nfin + Len(SelectSeq(srv.buf, LAMBDA f : StreamBlock(f).accepted))
              /\ Sleep
              /\ Again
              /\ UNCHANGED <<pc, outcome, loopExit, toRecs>>
    /\ UNCHANGED <<ctlVars, now, t0, flags, obs, progress, warned, exitIdx, doneAt>>

Digstream == Dig_Subscribe \/ Dig_Loop

\* ---------------------------------- uhfqa/common_uhfqa.py acquisition_poll
\* the caller arms and subscribes; acquisition_poll starts with time = 0 and,
\* as 0 < timeout and nothing is there yet, makes its first daq.poll
Qa_Subscribe ==
    /\ Running("uhfqa", "config")
    /\ calls' = calls \o <<"sync", "subscribe", "poll">>
    /\ srv' = Executed(srv)
    /\ iter' = 0
    /\ t0' = now
    /\ Begin("module")
    /\ Sleep
    /\ pc' = "poll"
    /\ UNCHANGED <<ctlVars, outcome, now, data, flags, obs, progress, nfin,
                   checked, warned, toRecs, exitIdx, late>>

\* A daq.poll returns: append the chunks; time += poll_length; then
\* while time < timeout and not all(gotem): poll again.  After the loop
\* raise unless all gotem, else return the concatenated chunks.  iter stands
\* for `time` in units of poll_length, one clock tick.
Qa_Poll ==
    /\ Running("uhfqa", "poll")
    /\ Slept
    /\ srv' = AfterRead(srv)
    /\ data' = data \o srv.buf
    /\ iter' = iter + 1
    /\ IF iter + 1 < Timeout /\ Len(data \o srv.buf) < Count
         THEN /\ Call("poll")
              /\ Sleep
              /\ UNCHANGED <<pc, outcome, loopExit, toRecs>>
         ELSE IF Len(data \o srv.buf) < Count
         THEN /\ Raise("Exception")
              /\ loopExit' = Exit("module", "timeout_raise")
              /\ toRecs' = Len(data \o srv.buf)
              /\ UNCHANGED <<calls, wake>>
         ELSE /\ Return
              /\ loopExit' = Exit("module", "done")
              /\ UNCHANGED <<calls, toRecs, wake>>
    /\ UNCHANGED <<ctlVars, now, t0, flags, obs, progress, nfin, checked,
                   warned, exitIdx, doneAt, late>>

Uhfqa == Qa_Subscribe \/ Qa_Poll

\* ------------------------------------------------ utils/python/cli_utils.py
\* Characters of a version text: re.findall captures [0-9\.]*.
Digits == {"0", "2"}
VerChars == Digits \cup {"."}

\* int() of one decimal digit
DigitVal(c) == CHOOSE n \in 0..9 : <<"0", "1", "2", "3", "4", "5", "6", "7", "8", "9">>[n + 1] = c

\* int(s) for a nonempty run of digits
RECURSIVE ToInt(_)
ToInt(s) ==
    IF s = <<>> THEN 0
    ELSE 10 * ToInt(SubSeq(s, 1, Len(s) - 1)) + DigitVal(s[Len(s)])

\* s.split(".")
RECURSIVE Split(_)
Split(s) ==
    LET dots == {i \in 1..Len(s) : s[i] = "."}
    IN  IF dots = {} THEN <<s>>
        ELSE LET i == CHOOSE d \in dots : \A e \in dots : d <= e
             IN  <<SubSeq(s, 1, i - 1)>> \o Split(SubSeq(s, i + 1, Len(s)))

\* re.match(r"^\d\d\.\d\d$", version)
MajorMinorFormat(v) ==
    /\ Len(v) = 5
    /\ v[1] \in Digits /\ v[2] \in Digits /\ v[3] = "."
    /\ v[4] \in Digits /\ v[5] \in Digits

\* re.match(r"^\d\d\.\d\d.\d+$", version): the second separator is an
\* unescaped `.`, it matches any character
MajorMinorBuildFormat(v) ==
    /\ Len(v) >= 7
    /\ v[1] \in Digits /\ v[2] \in Digits /\ v[3] = "."
    /\ v[4] \in Digits /\ v[5] \in Digits
    /\ \A i \in 7..Len(v) : v[i] \in Digits

\* extract_version: the minimum version of the docstring, or the exception
extract_version(d) ==
    IF Len(d) = 0 THEN [exc |-> "Exception", version |-> <<>>]
    ELSE IF Len(d) > 1 THEN [exc |-> "Exception", version |-> <<>>]
    ELSE LET version == d[1]
             parts == Split(version)
         IN  IF MajorMinorFormat(version)
             THEN [exc |-> "none",
                   version |-> <<ToInt(parts[1]), ToInt(parts[2]), 0>>]
             ELSE IF MajorMinorBuildFormat(version)
             THEN IF Len(parts) # 3
                  THEN [exc |-> "ValueError", version |-> <<>>]
                  ELSE [exc |-> "none",
                        version |-> <<ToInt(parts[1]), ToInt(parts[2]), ToInt(parts[3])>>]
             ELSE [exc |-> "Exception", version |-> <<>>]

\* Python's >= on 3-tuples
TupleGE(a, b) ==
    \/ a[1] > b[1]
    \/ a[1] = b[1] /\ a[2] > b[2]
    \/ a[1] = b[1] /\ a[2] = b[2] /\ a[3] >= b[3]

\* map(int, installed_version.split("."))
InstalledTuple(v) == LET parts == Split(v) IN <<ToInt(parts[1]), ToInt(parts[2]), ToInt(parts[3])>>

\* if (min_major, min_minor, min_build) >= (major, minor, build): raise
VersionTooOld(min, inst) == TupleGE(min, inst)

\* check_version: "none" when it returns, else the exception it raises
check_version(d, v) ==
    LET m == extract_version(d)
    IN  IF m.exc # "none" THEN m.exc
        ELSE IF VersionTooOld(m.version, InstalledTuple(v)) THEN "Exception"
        ELSE "none"

\* extract_devices of the docstring "[device_type: UHF.*(PID)|MF.*(PID)]"
dev_types == <<[type |-> "UHF.*", opt |-> <<"PID">>], [type |-> "MF.*", opt |-> <<"PID">>]>>

\* re.search(dev_type, props["devicetype"])
re_search(pat, devicetype) ==
    \/ pat = "UHF.*" /\ devicetype \in {"UHFLI"}
    \/ pat = "MF.*" /\ devicetype \in {"MFLI"}

\* check_single_device: "none" when it returns, else the exception it raises
check_single_device(p) ==
    IF p.devicetype = "" THEN "Exception"
    ELSE IF \E i \in 1..Len(dev_types) :
               /\ re_search(dev_types[i].type, p.devicetype)
               /\ \A j \in 1..Len(dev_types[i].opt) :
                     dev_types[i].opt[j] \in p.options \/ dev_types[i].opt[j] = ""
         THEN "none"
         ELSE "Exception"

\* run_commandline: check_version(doc)
Cli_CheckVersion ==
    /\ Running("commandline", "config")
    /\ Call("check_version")
    /\ IF check_version(doc, installed) = "none"
         THEN pc' = "check_devices" /\ UNCHANGED outcome
         ELSE Raise(check_version(doc, installed))
    /\ UNCHANGED <<ctlVars, timeVars, srv, locVars, loopExit, toRecs, exitIdx,
                   doneAt, late>>

Cli_CheckDevices_Ignored ==
    /\ Running("commandline", "check_devices")
    /\ Call("check_devices")
    /\ pc' = "func"
    /\ UNCHANGED <<ctlVars, outcome, timeVars, srv, locVars, loopExit, toRecs,
                   exitIdx, doneAt, late>>

\* run_commandline: check_devices(doc, args)
Cli_CheckDevices ==
    /\ Running("commandline", "check_devices")
    /\ Call("check_devices")
    /\ IF check_single_device(props) = "none"
         THEN pc' = "func" /\ UNCHANGED outcome
         ELSE Raise(check_single_device(props))
    /\ UNCHANGED <<ctlVars, timeVars, srv, locVars, loopExit, toRecs, exitIdx,
                   doneAt, late>>

\* run_commandline: return_value = func(**args)
Cli_Func ==
    /\ Running("commandline", "func")
    /\ Call("func")
    /\ Return
    /\ UNCHANGED <<ctlVars, timeVars, srv, locVars, loopExit, toRecs, exitIdx,
                   doneAt, late>>

\* ------------------------------------------ uhf/example_awg_sourcefile.py
\* awgModule.execute() (line 96); set compiler/sourcefile and compiler/start;
\* timeout = 20; t0 = time.time(); first test of compiler/status
Src_Compile ==
    /\ Running("awgsourcefile", "config")
    /\ calls' = calls \o <<"set", "execute">>
    /\ srv' = [Executed(srv) EXCEPT !.node = -1, !.elf = 2]
    /\ t0' = now
    /\ Begin("status")
    /\ Sleep
    /\ pc' = "compile"
    /\ UNCHANGED <<ctlVars, outcome, now, locVars, toRecs, exitIdx, late>>

\* while compiler/status == -1: time.sleep(0.1); on a timeout an Exception
\* object is built and dropped (there is no `raise`), so nothing happens.
\* After the loop: raise on status 1, print on 0 and 2, time.sleep(0.2).
Src_CompileWait ==
    /\ Running("awgsourcefile", "compile")
    /\ Slept
    /\ IF srv.node = -1
         THEN /\ Sleep
              /\ Again
              /\ UNCHANGED <<pc, outcome, loopExit, warned, doneAt>>
         ELSE /\ loopExit' = Exit("status", "done")
              /\ IF srv.node = 1
                   THEN /\ Raise("Exception")
                        /\ UNCHANGED <<warned, wake, doneAt>>
                   ELSE /\ warned' = IF srv.node = 2
                                      THEN warned \cup {"compiler warning"}
                                      ELSE warned
                        /\ Sleep
                        /\ pc' = "upload"
                        /\ UNCHANGED <<outcome, doneAt>>
              /\ UNCHANGED late
    /\ UNCHANGED <<ctlVars, now, t0, srv, data, flags, obs, progress, nfin,
                   iter, checked, calls, toRecs, exitIdx>>

\* while progress < 1.0 and elf/status != 1: time.sleep(0.5)
Src_Upload ==
    /\ Running("awgsourcefile", "upload")
    /\ Slept
    /\ IF UploadProgress(srv) < 1 /\ srv.elf # 1
         THEN /\ Sleep
              /\ UNCHANGED <<pc, outcome>>
         ELSE /\ IF srv.elf = 1 THEN Raise("Exception") ELSE Return
              /\ UNCHANGED wake
    /\ UNCHANGED <<ctlVars, now, t0, srv, locVars, ghostVars>>

\* ------------------------- shfqa/shf_utils.py Shfqa.load_sequencer_program
\* reset the sequencer, daq.sync(); awg_module.execute(); t_start; set
\* compiler/sourcestring; timeout_occurred = False (flags = 0); the first
\* compiler_status read (obs) is -1, the time test fails, time.sleep(0.1)
Shf_Execute ==
    /\ Running("shfqa", "config")
    /\ calls' = calls \o <<"set", "sync", "execute">>
    /\ srv' = [Executed(srv) EXCEPT !.node = -1]
    /\ t0' = now
    /\ obs' = -1
    /\ flags' = 0
    /\ Begin("status")
    /\ Sleep
    /\ pc' = "compile"
    /\ UNCHANGED <<ctlVars, outcome, now, data, progress, nfin, iter, checked,
                   warned, toRecs, exitIdx, late>>

\* compiler_status = getInt("compiler/status") after the sleep; while it is
\* -1: if time.time() - t_start > timeout_compile: timeout_occurred = True,
\* break; else sleep again
Shf_CompileWait ==
    /\ Running("shfqa", "compile")
    /\ Slept
    /\ obs' = srv.node
    /\ IF srv.node = -1
         THEN IF Expired
              THEN /\ flags' = 1
                   /\ loopExit' = Exit("status", "timeout_break")
                   /\ toRecs' = 0
                   /\ pc' = "check"
                   /\ UNCHANGED <<wake, late>>
              ELSE /\ Sleep
                   /\ Again
                   /\ UNCHANGED <<pc, flags, loopExit, toRecs>>
         ELSE /\ loopExit' = Exit("status", "done")
              /\ pc' = "check"
              /\ UNCHANGED <<wake, late, flags, toRecs>>
    /\ UNCHANGED <<ctlVars, outcome, now, t0, srv, data, progress, nfin, iter,
                   checked, warned, calls, exitIdx, doneAt>>

\* if timeout_occurred or compiler_status != 0: read compiler/status again;
\* 2: print; elif timeout_occurred: raise; else: raise
Shf_Check ==
    /\ Running("shfqa", "check")
    /\ IF flags = 1 \/ obs # 0
         THEN /\ obs' = srv.node
              /\ IF srv.node = 2
                   THEN /\ warned' = warned \cup {"compiler warning"}
                        /\ pc' = "ready"
                        /\ UNCHANGED outcome
                   ELSE /\ Raise("RuntimeError")
                        /\ UNCHANGED warned
         ELSE /\ pc' = "ready"
              /\ UNCHANGED <<outcome, obs, warned>>
    /\ UNCHANGED <<ctlVars, timeVars, srv, data, flags, progress, nfin, iter,
                   checked, ghostVars>>

\* assert_node_changes_to_expected_value(generator/ready, 1), a zhinst.utils
\* helper: the node becomes 1 in time or the helper's assertion fails
Shf_Ready ==
    /\ Running("shfqa", "ready")
    /\ \E ready \in BOOLEAN : IF ready THEN Return ELSE Raise("AssertionError")
    /\ UNCHANGED <<ctlVars, timeVars, srv, locVars, ghostVars>>

\* ------------------------------------ uhfqa/common_uhfqa.py, the data side
\* The paths the session is subscribed to; daq.poll may return data for any.
AllPaths == {"a", "b"}

\* np.concatenate(v): the vectors of v one after the other
RECURSIVE Flatten(_)
Flatten(v) == IF v = <<>> THEN <<>> ELSE Head(v) \o Flatten(Tail(v))

\* Variant of the step below: a path that has its samples records no more.
Ap_Poll_Stop ==
    /\ Running("acquisition_poll", "config")
    /\ iter < Timeout /\ \E p \in paths : ~gotem[p]
    /\ \E lens \in [AllPaths -> {<<>>, <<1>>, <<2>>, <<1, 1>>}] :
          LET dataset(p) == [k \in 1..Len(lens[p]) |->
                                [i \in 1..lens[p][k] |-> iter + 1]]
          IN /\ chunks' = [p \in paths |->
                              IF gotem[p] THEN chunks[p]
                              ELSE chunks[p] \o dataset(p)]
             /\ gotem' = [p \in paths |->
                    \/ gotem[p]
                    \/ /\ dataset(p) # <<>>
                       /\ Len(Flatten(chunks[p] \o dataset(p))) >= Count]
             /\ polled' = [p \in AllPaths |-> polled[p] \o Flatten(dataset(p))]
    /\ iter' = iter + 1
    /\ Call("poll")
    /\ UNCHANGED <<script, save, synchronize, doc, installed, props, paths,
                   result, pc, outcome, timeVars, srv, data, flags, obs,
                   progress, nfin, checked, warned, loopExit, toRecs, exitIdx,
                   doneAt, late>>

\* while time < timeout and not all(gotem.values()): dataset = daq.poll(...);
\* for path in paths: skip a path not in dataset, else append every
\* data["vector"] to chunks[path] and set gotem[path] once
\* num_obtained >= num_samples; time += poll_length.  A vector polled in poll
\* n is written as n, n, ... (its samples).
Ap_Poll ==
    /\ Running("acquisition_poll", "config")
    /\ iter < Timeout /\ \E p \in paths : ~gotem[p]
    /\ \E lens \in [AllPaths -> {<<>>, <<1>>, <<2>>, <<1, 1>>}] :
          LET dataset(p) == [k \in 1..Len(lens[p]) |->
                                [i \in 1..lens[p][k] |-> iter + 1]]
          IN /\ chunks' = [p \in paths |-> chunks[p] \o dataset(p)]
             /\ gotem' = [p \in paths |->
                    \/ gotem[p]
                    \/ /\ dataset(p) # <<>>
                       /\ Len(Flatten(chunks[p] \o dataset(p))) >= Count]
             /\ polled' = [p \in AllPaths |-> polled[p] \o Flatten(dataset(p))]
    /\ iter' = iter + 1
    /\ Call("poll")
    /\ UNCHANGED <<script, save, synchronize, doc, installed, props, paths,
                   result, pc, outcome, timeVars, srv, data, flags, obs,
                   progress, nfin, checked, warned, loopExit, toRecs, exitIdx,
                   doneAt, late>>

\* after the loop: if not all(gotem.values()): raise Exception(...);
\* return {p: np.concatenate(v) for p, v in chunks.items()}
Ap_Return ==
    /\ Running("acquisition_poll", "config")
    /\ ~(iter < Timeout /\ \E p \in paths : ~gotem[p])
    /\ IF \E p \in paths : ~gotem[p]
         THEN /\ Raise("Exception")
              /\ UNCHANGED result
         ELSE /\ Return
              /\ result' = [p \in DOMAIN chunks |-> Flatten(chunks[p])]
    /\ UNCHANGED <<script, save, synchronize, doc, installed, props, paths,
                   chunks, gotem, polled, timeVars, srv, locVars, ghostVars>>

\* ================================================================ the model
Scripts ==
    {"continuous", "grid", "scope", "segmented", "shfli", "mddaq", "autorange",
     "pid", "hdawg", "savesettings", "sweeper", "ghflisweeper", "mdsweep",
     "edge", "digstream", "uhfqa", "awgsourcefile", "shfqa"}

\* Scripts with a save-to-file option.
SaveScripts == {"continuous", "edge", "sweeper", "mdsweep", "ghflisweeper"}

\* Scripts with a --synchronize option.
SyncScripts == {"mddaq", "mdsweep"}

\* Device types and option sets a discovery can report ("": not discovered).
DeviceTypes == {"", "MFLI", "UHFLI"}
OptionSets == {{}, {"PID"}, {"PID", "MD"}}
DeviceProps == [devicetype : DeviceTypes, options : OptionSets]

\* The locals of a script when it starts.
Started ==
    /\ pc = "config"
    /\ outcome = "running"
    /\ now = 0 /\ t0 = 0 /\ wake = 0
    /\ srv = ModuleIdle
    /\ data = <<>>
    /\ flags = 0 /\ obs = 0 /\ progress = 0 /\ nfin = 0 /\ iter = 0
    /\ checked = <<>>
    /\ warned = {}
    /\ calls = <<>>
    /\ result = <<>>
    /\ loopExit = [wait |-> "none", how |-> "none", since |-> 0]
    /\ toRecs = -1
    /\ exitIdx = -1
    /\ doneAt = [w \in Waits |-> -1]
    /\ late = FALSE

Init ==
    /\ script \in Scripts
    /\ save \in (IF script \in SaveScripts THEN BOOLEAN ELSE {FALSE})
    /\ synchronize \in (IF script \in SyncScripts THEN BOOLEAN ELSE {FALSE})
    /\ doc = <<>>
    /\ installed = <<>>
    /\ props \in (IF script = "pid"
                    THEN {p \in DeviceProps : p.devicetype # ""}
                    ELSE {[devicetype |-> "", options |-> {}]})
    /\ paths = {} /\ chunks = <<>> /\ gotem = <<>> /\ polled = <<>>
    /\ Started

Server == SrvProduce \/ SrvFinish \/ SrvSaved \/ SrvNode \/ SrvUpload

Next ==
    \/ Tick \/ Server
    \/ Continuous \/ Grid \/ Scope \/ Segmented \/ Shfli
    \/ Mddaq \/ Autorange \/ Pid \/ Hdawg \/ Savesettings
    \/ Sweeper \/ Ghflisweeper \/ Mdsweep
    \/ Edge \/ Digstream \/ Uhfqa
    \/ Src_Compile \/ Src_CompileWait \/ Src_Upload
    \/ Shf_Execute \/ Shf_CompileWait \/ Shf_Check \/ Shf_Ready

Spec == Init /\ [][Next]_vars

\* ------------------------------------------- run_commandline on its own
\* Version texts of a docstring: every text of up to MaxVerLen characters.
VersionTexts == UNION {[1..n -> VerChars] : n \in 0..MaxVerLen}

\* Docstrings with no, one or two "LabOne Version >= " lines.
Docs ==
    {<<>>} \cup {<<v>> : v \in VersionTexts}
           \cup {<<v, v>> : v \in {<<"2", "0", ".", "0", "2">>}}

\* Installed versions, MAJOR.MINOR.BUILD.
InstalledVersions ==
    {<<"2", "0", ".", "0", "2", ".", b>> : b \in Digits}
        \cup {<<"2", "2", ".", "0", "2", ".", b>> : b \in Digits}

InitCli ==
    /\ script = "commandline"
    /\ save = FALSE
    /\ synchronize = FALSE
    /\ doc \in Docs
    /\ installed \in InstalledVersions
    /\ props \in DeviceProps
    /\ paths = {} /\ chunks = <<>> /\ gotem = <<>> /\ polled = <<>>
    /\ Started

NextCli == Cli_CheckVersion \/ Cli_CheckDevices \/ Cli_Func

SpecCli == InitCli /\ [][NextCli]_vars

\* --------------------------------------- the two sweeper scripts, fair runs
\* The script is a sequential program that keeps running, the clock keeps
\* advancing and a started background save completes; the sweep itself may
\* block for ever (no fairness for SrvProduce and SrvFinish).
SweepScripts == {"sweeper", "ghflisweeper"}

InitSweep == Init /\ script \in SweepScripts

NextSweep ==
    \/ Tick \/ Wake
    \/ SrvProduce \/ SrvFinish \/ SrvSaved
    \/ Sweeper \/ Ghflisweeper

SpecSweep ==
    /\ InitSweep /\ [][NextSweep]_vars
    /\ WF_vars(Sweeper \/ Ghflisweeper)
    /\ WF_vars(Tick \/ Wake)
    /\ WF_vars(SrvSaved)

\* ------------------------------- common_uhfqa.acquisition_poll on its own
\* paths is a list of distinct subscribed paths; num_samples is Count and
\* timeout / poll_length is Timeout polls.
InitPoll ==
    /\ script = "acquisition_poll"
    /\ save = FALSE
    /\ synchronize = FALSE
    /\ doc = <<>>
    /\ installed = <<>>
    /\ props = [devicetype |-> "", options |-> {}]
    /\ paths \in SUBSET AllPaths
    /\ chunks = [p \in paths |-> <<>>]
    /\ gotem = [p \in paths |-> FALSE]
    /\ polled = [p \in AllPaths |-> <<>>]
    /\ Started

NextPoll == Ap_Poll \/ Ap_Return

SpecPoll == InitPoll /\ [][NextPoll]_vars

\* ============================================================ properties
\* The ways a wait loop ends on its timeout.
TimeoutHows == {"timeout_raise", "timeout_break", "timeout_return", "timeout_finish"}

SweeperScripts == {"sweeper", "ghflisweeper", "mdsweep"}

\* The poll loop of the running script ended on its timeout.
PollTimedOut == loopExit.wait = "module" /\ loopExit.how \in TimeoutHows

\* C1 as stated: no poll loop raises on a timeout that finds at least one
\* record accumulated.
C1_PartialDataNeverRaises ==
    ~(PollTimedOut /\ toRecs >= 1 /\ loopExit.how = "timeout_raise")

\* C1, amended: on a timeout with at least one record the grid loop and the
\* scope record loops leave the loop without raising and keep what they have;
\* the continuous loop, the stream poll loop and acquisition_poll raise on a
\* timeout whatever has been accumulated.
C1_PartialDataPerLoop ==
    /\ (script \in {"grid", "scope", "segmented"} /\ PollTimedOut /\ toRecs >= 1)
          => (loopExit.how = "timeout_break"
              /\ (script = "grid" => Len(data) >= toRecs))
    /\ (script \in {"continuous", "digstream", "uhfqa"} /\ PollTimedOut)
          => (loopExit.how = "timeout_raise" /\ outcome = "raised")

\* The grid loop timed out with a grid recorded and the script went on to finish().
C1_Witness ==
    /\ script = "grid" /\ PollTimedOut /\ toRecs >= 1
    /\ Len(data) >= 1 /\ pc = "finish"

\* C2 as stated: every poll loop that times out with no record accumulated
\* raises, so the script neither reads on nor returns.
C2_EmptyTimeoutAlwaysRaises ==
    (PollTimedOut /\ toRecs = 0)
        => (loopExit.how = "timeout_raise" /\ outcome = "raised")

\* C2, amended: a timeout with no record raises in the grid, continuous,
\* stream, acquisition_poll and multi-device DAQ loops; get_scope_records
\* prints, breaks and goes on to read(); the SHFLI example prints and returns.
C2_EmptyTimeoutPerLoop ==
    /\ (script \in {"grid", "continuous", "digstream", "uhfqa", "mddaq"}
        /\ PollTimedOut /\ toRecs = 0)
          => (loopExit.how = "timeout_raise" /\ outcome = "raised")
    /\ (script \in {"scope", "segmented"} /\ PollTimedOut)
          => loopExit.how = "timeout_break"
    /\ (script = "shfli" /\ PollTimedOut)
          => (loopExit.how = "timeout_return" /\ outcome = "returned"
              /\ Last(calls) = "execute")

\* The grid loop timed out before any grid was recorded and raised.
C2_Witness ==
    /\ script = "grid" /\ PollTimedOut /\ toRecs = 0
    /\ outcome = "raised" /\ Last(calls) = "finish"

\* C3 as stated: a wait whose awaited condition the server reached before the
\* budget ran out never ends in a raised timeout.
C3_ReachedInTimeNeverRaises ==
    (loopExit.wait \in Waits /\ loopExit.how = "timeout_raise")
        => ~(doneAt[loopExit.wait] >= t0 /\ doneAt[loopExit.wait] - t0 < Timeout)

\* C4 as stated: no wait loop goes for another round once it has waited
\* longer than the longest budget.
C4_EveryWaitBounded == ~late

\* C5 as stated: every wait that ends on its timeout ends in a raised exception.
C5_TimeoutAlwaysRaised ==
    loopExit.how \in TimeoutHows => loopExit.how = "timeout_raise"

\* C5, amended: a timeout is raised as an exception in the module and save
\* waits of the continuous example, the synchronisation start waits, the
\* multi-device DAQ wait, the findlevel, autorange and PID advisor waits and the
\* stream and acquisition_poll loops; the sweeper loops call finish() and go
\* on; the teardown of the multi-device sweep prints a warning and returns.
C5_TimeoutPerWait ==
    /\ (loopExit.how \in TimeoutHows
        /\ \/ script \in {"continuous", "mddaq", "autorange", "pid", "digstream",
                          "uhfqa"}
           \/ script = "grid" /\ loopExit.wait = "status"
           \/ script = "mdsweep" /\ loopExit.wait = "sync" /\ srv.start = 1)
          => (loopExit.how = "timeout_raise" /\ outcome = "raised")
    /\ (script \in SweeperScripts /\ PollTimedOut)
          => (loopExit.how = "timeout_finish"
              /\ \E i \in 1..Len(calls) : calls[i] = "finish")
    /\ (script = "mdsweep" /\ loopExit.wait = "sync" /\ srv.start = 0
        /\ loopExit.how \in TimeoutHows)
          => (loopExit.how = "timeout_break" /\ outcome = "returned")

\* The save wait of the continuous example ran out of time and raised.
C5_Witness ==
    /\ script = "continuous" /\ loopExit.wait = "save"
    /\ loopExit.how = "timeout_raise" /\ outcome = "raised"

\* In the call sequence cs every read() that follows a save/save request comes
\* after save/save was observed back at 0.
SaveConfirmedBeforeRead(cs) ==
    \A i, j \in 1..Len(cs) :
        (i < j /\ cs[i] = "save" /\ cs[j] = "read")
            => \E k \in (i + 1)..(j - 1) : cs[k] = "save=0"

\* C6 as stated: on the save path no read() comes between setting save/save
\* and observing it back at 0.
C6_SaveConfirmedBeforeRead == SaveConfirmedBeforeRead(calls)

\* C6, amended: the sweeper examples confirm the save before read(); the edge
\* example sets save/save, calls read(), and only then polls save/save to 0.
C6_SaveConfirmedPerScript ==
    /\ script \in SweeperScripts => SaveConfirmedBeforeRead(calls)
    /\ script = "edge" =>
          \A k \in 1..Len(calls) :
              calls[k] = "save=0" =>
                  \E i, j \in 1..(k - 1) :
                      i < j /\ calls[i] = "save" /\ calls[j] = "read"

\* The sweeper example, saving, has set save/save, seen it at 0 and read.
C6_Witness ==
    /\ script = "sweeper" /\ save /\ outcome = "returned"
    /\ \E i, k, j \in 1..Len(calls) :
          i < k /\ k < j /\ calls[i] = "save" /\ calls[k] = "save=0"
          /\ calls[j] = "read"

\* C7 as stated: a script that reads inside its poll loop and has left the
\* loop and run to its end has called read() after leaving the loop.
C7_FinalReadAlways ==
    (script \in {"continuous", "grid"} /\ exitIdx >= 0 /\ outcome = "returned")
        => \E j \in (exitIdx + 1)..Len(calls) : calls[j] = "read"

\* C8 as stated: every inspected record or block is warned about for every
\* error bit its flags carry.
C8_EveryFlagWarned ==
    \A i \in 1..Len(checked) :
        /\ Bit(checked[i].flags, 1) => "dataloss" \in checked[i].warns
        /\ Bit(checked[i].flags, 2) => "missed trigger" \in checked[i].warns
        /\ Bit(checked[i].flags, 4) => "transfer failure" \in checked[i].warns

C10_FinishBetweenExecutes ==
    \A i, j \in 1..Len(calls) :
        (i < j /\ calls[i] = "execute" /\ calls[j] = "execute")
            => \E k \in (i + 1)..(j - 1) : calls[k] \in {"finish", "clear"}

\* Scripts that drive a data-collecting module (DAQ, scope or sweeper module).
DataScripts ==
    {"continuous", "grid", "scope", "segmented", "shfli", "mddaq", "edge",
     "sweeper", "ghflisweeper", "mdsweep"}

\* C11: in a script that drives a data-collecting module no subscribe()
\* follows the module's execute(), and every execute() has a subscribe()
\* before it.
C11_SubscribeBeforeExecute ==
    script \in DataScripts =>
        \A j \in 1..Len(calls) :
            calls[j] = "execute" =>
                /\ \E i \in 1..(j - 1) : calls[i] = "subscribe"
                /\ \A k \in (j + 1)..Len(calls) : calls[k] # "subscribe"

\* The multi-device DAQ example has subscribed, executed and read.
C11_Witness ==
    /\ script = "mddaq" /\ outcome = "returned"
    /\ \E i, j \in 1..Len(calls) :
          i < j /\ calls[i] = "subscribe" /\ calls[j] = "execute"

\* ---------------------------------------------------------------- C12
\* Position of the last device configuration write ("set") before call j,
\* 0 when there is none.
LastSetBefore(j) ==
    LET S == {i \in 1..(j - 1) : calls[i] = "set"}
    IN  IF S = {} THEN 0 ELSE CHOOSE i \in S : \A k \in S : k <= i

\* C12: before every execute() of a module the session has issued daq.sync()
\* after its last device configuration write.
C12_SyncBeforeExecute ==
    \A j \in 1..Len(calls) :
        (calls[j] = "execute" /\ LastSetBefore(j) > 0) =>
            \E i \in (LastSetBefore(j) + 1)..(j - 1) : calls[i] = "sync"

VersionRaised == outcome = "raised" /\ calls = <<"check_version">>
VersionAccepted == Len(calls) >= 1 /\ ~VersionRaised

\* C17: for a docstring with one well-formed minimum version, check_version
\* returns exactly when the installed version is greater than or equal to
\* the minimum, and raises exactly when it is lower.
C17_AcceptsIffNotLower ==
    (Len(calls) >= 1 /\ extract_version(doc).exc = "none") =>
        (VersionAccepted <=>
            TupleGE(InstalledTuple(installed), extract_version(doc).version))

\* ---------------------------------------------------------------- C18
\* C18: the example function is called only after check_version and
\* check_devices, in this order, have both returned without raising; a run in
\* which a check raised never calls it.
C18_ExampleAfterChecks ==
    /\ (\E i \in 1..Len(calls) : calls[i] = "func") =>
          /\ calls = <<"check_version", "check_devices", "func">>
          /\ check_version(doc, installed) = "none"
          /\ check_single_device(props) = "none"
    /\ (check_version(doc, installed) # "none" \/ check_single_device(props) # "none") =>
          (outcome # "running" => (outcome = "raised" /\ \A i \in 1..Len(calls) : calls[i] # "func"))

C18_Witness ==
    /\ outcome = "returned"
    /\ calls = <<"check_version", "check_devices", "func">>

\* ---------------------------------------------------------------- C14
\* Number of execute() calls made so far.
Executes(cs) == Cardinality({i \in 1..Len(cs) : cs[i] = "execute"})

\* A step of a script with respect to retrying: the step that finds the
\* timeout issues no execute(); after a timeout, execute() is called again
\* only for a later measurement of the scope examples, and the same kind of
\* wait is entered again only by such a new execute().
NoRetryStep ==
    /\ (loopExit.how = "waiting" /\ loopExit'.how \in TimeoutHows) =>
          Executes(calls') = Executes(calls)
    /\ loopExit.how \in TimeoutHows =>
          /\ Executes(calls') > Executes(calls) =>
                (script \in {"scope", "segmented"} /\ iter' > Executes(calls))
          /\ (loopExit'.how = "waiting" /\ loopExit'.wait = loopExit.wait) =>
                Executes(calls') > Executes(calls)

\* C14: once a wait has timed out the script neither issues the request
\* again nor enters the wait for it again.
C14_NoRetry == [][NoRetryStep]_vars

C14_Witness ==
    /\ script = "sweeper" /\ outcome = "returned"
    /\ loopExit.wait = "module" /\ loopExit.how = "timeout_finish"
    /\ Executes(calls) = 1

\* ---------------------------------------------------------------- C15
\* Scripts whose module is configured with a record count and whose reads are
\* collected in `data`.
CountedScripts == {"grid", "scope", "shfli", "mddaq", "edge"}

\* C15: when the wait on a module configured with count = Count ended because
\* the module finished, the script has got exactly Count entries from read()
\* under the subscribed path.
C15_CountWhenFinished ==
    (/\ script \in CountedScripts /\ outcome = "returned"
     /\ loopExit.wait = "module" /\ loopExit.how = "done") =>
        Len(data) = Count

\* ---------------------------------------------------------------- C19
\* C19: with --synchronize, a run of the multi-device data acquisition that
\* completes the acquisition has started the synchronization before the
\* module's execute() and stopped it after the read().
C19_SyncStartedAndStopped ==
    (script = "mddaq" /\ synchronize /\ outcome = "returned") =>
        \E i, j, k, l \in 1..Len(calls) :
            /\ i < j /\ j < k /\ k < l
            /\ calls[i] = "mds.start" /\ calls[j] = "execute"
            /\ calls[k] = "read" /\ calls[l] = "mds.stop"

\* ---------------------------------------------------------------- C20
\* C20: the second deviceSettings execution of the save-settings example is a
\* load of the file the first one wrote, so when the run ends the toggled
\* setting has the value it had when the settings were saved (the negation of
\* the script's first reading of it).
C20_LoadRestoresSavedSetting ==
    (script = "savesettings" /\ outcome = "returned") =>
        /\ srv.command = "load"
        /\ srv.on = 1 - data[1]

\* ---------------------------------------------------------------- C21
\* C21: acquisition_poll raises its timeout error no later than `timeout`
\* (here Timeout ticks) of elapsed time after the call started.
C21_TimeoutInSeconds ==
    (script = "uhfqa" /\ outcome = "raised" /\ loopExit.how = "timeout_raise") =>
        now - t0 <= Timeout

\* C22: in uhf example_awg_sourcefile the wait for compilation is bounded by
\* its timeout: the loop never goes for another round of waiting once more
\* than the timeout has passed since compilation was started.
C22_CompileWaitBounded ==
    (script = "awgsourcefile" /\ pc = "compile") => ~late

\* C24: Shfqa.load_sequencer_program goes on past compilation exactly when the
\* compiler finished with status 0 or 2 and no compile timeout occurred, and
\* raises RuntimeError exactly when the status is 1 or the timeout occurred.
C24_ProceedsIffCompiled ==
    (script = "shfqa" /\ pc \in {"ready", "RuntimeError"}) =>
        /\ (pc = "ready") = (obs \in {0, 2} /\ flags = 0)
        /\ (pc = "RuntimeError") = (obs = 1 \/ flags = 1)

\* C23: in the sweeper scripts, once the timeout has elapsed while the wait
\* loop runs, the loop is eventually left and the script reaches read().
ReadCalled == \E i \in DOMAIN calls : calls[i] = "read"

GaveUpOnModule ==
    /\ outcome \in {"raised", "returned"}
    /\ script \notin {"digstream", "uhfqa"}
    /\ loopExit.wait = "module"
    /\ loopExit.how \in {"timeout_raise", "timeout_return"}

Released == \E i \in DOMAIN calls : calls[i] \in {"finish", "clear"}

MeasurementStarted(cs) == \E i \in DOMAIN cs : cs[i] \in {"subscribe", "execute"}

SyncedStep ==
    (script \in SyncScripts /\ synchronize) =>
        /\ (pc \in {"config", "sync"}) => ~MeasurementStarted(calls)
        /\ (pc = "config") => pc' \in {"config", "sync"}
        /\ (pc = "sync" /\ pc' # "sync") =>
              \/ obs' = 2 /\ outcome' = "running"
              \/ outcome' = "raised" /\ ~MeasurementStarted(calls')
        /\ (pc = "sync" /\ obs' = -1) =>
              (outcome' = "raised" /\ ~MeasurementStarted(calls'))

C26_MeasurementAfterSync == [][SyncedStep]_vars

\* The devices were synchronised (status 2 seen) and the measurement started.
C26_Witness ==
    /\ script \in SyncScripts /\ synchronize
    /\ doneAt["sync"] # -1
    /\ MeasurementStarted(calls) /\ Last(calls) = "execute"

\* C27: acquisition_poll returns normally exactly when every path of `paths`
\* has accumulated at least num_samples samples and raises otherwise; the
\* dictionary returned has exactly the keys in `paths` and holds, per path,
\* all the samples that were polled for it, in order.
C27_ReturnsAllPolled ==
    (script = "acquisition_poll" /\ outcome # "running") =>
        /\ (outcome = "returned") = (\A p \in paths : Len(polled[p]) >= Count)
        /\ outcome # "returned" => (outcome = "raised" /\ pc = "Exception")
        /\ outcome = "returned" =>
              /\ DOMAIN result = paths
              /\ \A p \in paths : result[p] = polled[p]

\* Two paths were asked for; one had its samples a poll before the other, and
\* more than num_samples samples came back for it.
C27_Witness ==
    /\ script = "acquisition_poll" /\ outcome = "returned"
    /\ paths = AllPaths
    /\ \E p \in paths : Len(result[p]) > Count /\ result[p][1] # result[p][Len(result[p])]

====
